---- MODULE Spec2Model ----
(***************************************************************************)
(* Model of go-s3-overwrite (overwrite.go): the two entry points           *)
(* OverwriteS3Object and OverwriteS3ObjectWithAcl, the S3Client they       *)
(* drive, the local files they create and remove, and the grant and tag    *)
(* serializers.  One invocation against one bucket/key is modelled; every  *)
(* action is the code between two store calls, including the deferred      *)
(* functions that run when the entry point returns.                        *)
(***************************************************************************)
EXTENDS Integers, Sequences, FiniteSets, TLC

VARIABLES
    store,                \* the object held by the S3 store for bucket/key
    before,               \* the store as it was when the entry point was called
    mode,                 \* which entry point runs
    acl,                  \* the acl argument of OverwriteS3ObjectWithAcl
    pc,                   \* the next step of the entry point
    getResp,              \* *s3.GetObjectOutput
    fs,                   \* the local files: path -> content
    info,                 \* the ObjectInfo the entry point builds and holds
    cbInfo,               \* the callback's copy of it, as the callback left it
    overwritingFilePath,  \* first result of the callback
    autoRemove,           \* second result of the callback
    deferred,             \* the deferred functions registered so far
    tagging,              \* var tagging *string
    tagResp,              \* tagResp.TagSet
    aclResp,              \* aclResp.Grants
    calls,                \* the store and callback calls made, in order
    putLog,               \* the PutObjectInput of every PutObject call
    aclLog,               \* the PutObjectAclInput of every PutObjectAcl call
    result,               \* the error value returned by the entry point
    args,                 \* the arguments of a serializer called on its own
    ret,                  \* the string that serializer returned
    other                 \* a second invocation on the same key, while it waits

vars == <<store, before, mode, acl, pc, getResp, fs, info, cbInfo,
          overwritingFilePath, autoRemove, deferred, tagging, tagResp,
          aclResp, calls, putLog, aclLog, result, args, ret, other>>

-----------------------------------------------------------------------------
(* Bounds of the model *)

MaxGrants == 2   \* longest grant list an object carries
MaxTags == 1     \* longest tag set an object carries
MaxGrantArgs == 3   \* longest grant list buildGrantString is called with on its own
MaxTagArgs == 2     \* longest tag list buildTaggingString is called with on its own
MaxInvocations == 2 \* most calls of an entry point made one after the other

-----------------------------------------------------------------------------
(* Go values *)

\* a nil *string
NilStr == "<nil>"

\* a nil *int32 (getResp.TagCount)
NilCount == -1

\* a nil map (map[string]string or map[string]*string)
NilMap == [isNil |-> TRUE, kv |-> <<>>]

MakeMap(f) == [isNil |-> FALSE, kv |-> f]

\* a nil *string whose value is a sequence of characters (a tag key, a tag value, Tagging)
NilChars == <<"<nil>">>

\* aws.ToString, on a *string held as a sequence of characters
awsToString(p) == IF p = NilChars THEN <<>> ELSE p

\* aws.ToInt32
ToInt32(p) == IF p = NilCount THEN 0 ELSE p

Range(s) == {s[i] : i \in DOMAIN s}

SeqsUpTo(S, n) == UNION {[1..k -> S] : k \in 0..n}

-----------------------------------------------------------------------------
(* Grants: types.Grant, types.Grantee, types.Permission *)

Permissions == {"READ", "READ_ACP", "WRITE_ACP", "WRITE", "FULL_CONTROL"}

PermissionWrite == "WRITE"

Grantee(id, uri, email) == [ID |-> id, URI |-> uri, EmailAddress |-> email]

\* the grantees an object of the store carries: a canonical user, a group, an e-mail address
Grantees ==
    { Grantee("a1", NilStr, NilStr),
      Grantee(NilStr, "http://g/AllUsers", NilStr),
      Grantee(NilStr, NilStr, "t@x") }

Grants == [Permission : Permissions, Grantee : Grantees]

\* strings.Join(elems, sep)
RECURSIVE Join(_, _)
Join(elems, sep) ==
    IF Len(elems) = 0 THEN ""
    ELSE IF Len(elems) = 1 THEN elems[1]
    ELSE elems[1] \o sep \o Join(Tail(elems), sep)

\* the body of the loop of buildGrantString: what one grant appends to grantees
GranteeString(grant, permission) ==
    IF grant.Permission = permission
    THEN IF grant.Grantee.ID # NilStr
         THEN <<"id=\"" \o grant.Grantee.ID \o "\"">>
         ELSE IF grant.Grantee.URI # NilStr
         THEN <<"uri=\"" \o grant.Grantee.URI \o "\"">>
         ELSE IF grant.Grantee.EmailAddress # NilStr
         THEN <<"emailaddress=\"" \o grant.Grantee.EmailAddress \o "\"">>
         ELSE <<>>
    ELSE <<>>

\* mutant: a matching grantee is put in front of the ones found before it
RECURSIVE MatchingGranteesReversed(_, _)
MatchingGranteesReversed(grants, permission) ==
    IF grants = <<>> THEN <<>>
    ELSE MatchingGranteesReversed(Tail(grants), permission)
             \o GranteeString(Head(grants), permission)

RECURSIVE MatchingGrantees(_, _)
MatchingGrantees(grants, permission) ==
    IF grants = <<>> THEN <<>>
    ELSE GranteeString(Head(grants), permission)
             \o MatchingGrantees(Tail(grants), permission)

\* mutant: a matching grantee replaces the ones found before it
buildGrantStringLastOnly(grants, permission) ==
    LET grantees == MatchingGrantees(grants, permission)
    IN  IF Len(grantees) = 0 THEN "" ELSE grantees[Len(grantees)]

buildGrantString(grants, permission) ==
    LET grantees == MatchingGrantees(grants, permission)
    IN  IF Len(grantees) = 0 THEN "" ELSE Join(grantees, ",")

\* mutant: only the first grant is looked at
hasWriteGrantFirstOnly(grants) ==
    grants # <<>> /\ grants[1].Permission = PermissionWrite

hasWriteGrant(grants) ==
    \E i \in DOMAIN grants : grants[i].Permission = PermissionWrite

\* mutant: the field is set whatever the string
SetEvenIfEmpty(s) == s

\* a request field left unset when the string is empty: if s != "" { v.Field = &s }
SetIfNotEmpty(s) == IF s # "" THEN s ELSE NilStr

\* mutant: the READ_ACP field is built from the READ grants
addGrantsToInputReadForReadAcp(input, grants, includeWrite) ==
    LET readGrants == buildGrantString(grants, "READ")
        writeAcpGrants == buildGrantString(grants, "WRITE_ACP")
        fullControlGrants == buildGrantString(grants, "FULL_CONTROL")
        common == [input EXCEPT !.GrantRead = SetIfNotEmpty(readGrants),
                                !.GrantReadACP = SetIfNotEmpty(readGrants),
                                !.GrantWriteACP = SetIfNotEmpty(writeAcpGrants),
                                !.GrantFullControl = SetIfNotEmpty(fullControlGrants)]
    IN  IF input.type = "PutObjectAclInput" /\ includeWrite
        THEN [common EXCEPT !.GrantWrite =
                  SetIfNotEmpty(buildGrantString(grants, "WRITE"))]
        ELSE common

\* addGrantsToInput: input is a PutObjectInput or a PutObjectAclInput (the type switch)
addGrantsToInput(input, grants, includeWrite) ==
    LET readGrants == buildGrantString(grants, "READ")
        readAcpGrants == buildGrantString(grants, "READ_ACP")
        writeAcpGrants == buildGrantString(grants, "WRITE_ACP")
        fullControlGrants == buildGrantString(grants, "FULL_CONTROL")
        common == [input EXCEPT !.GrantRead = SetIfNotEmpty(readGrants),
                                !.GrantReadACP = SetIfNotEmpty(readAcpGrants),
                                !.GrantWriteACP = SetIfNotEmpty(writeAcpGrants),
                                !.GrantFullControl = SetIfNotEmpty(fullControlGrants)]
    IN  IF input.type = "PutObjectInput" THEN common
        ELSE IF input.type = "PutObjectAclInput"
        THEN IF includeWrite
             THEN [common EXCEPT !.GrantWrite =
                       SetIfNotEmpty(buildGrantString(grants, "WRITE"))]
             ELSE common
        ELSE input

-----------------------------------------------------------------------------
(* Tags: types.Tag, url.QueryEscape.  Tag strings are sequences of characters *)

\* mutant: '&' is taken for an unreserved character
EscapeCharKeepsAmpersand(c) ==
    CASE c = " " -> <<"+">>
      [] c = "=" -> <<"%", "3", "D">>
      [] c = "+" -> <<"%", "2", "B">>
      [] c = "%" -> <<"%", "2", "5">>
      [] c = "0xC3" -> <<"%", "C", "3">>
      [] c = "0xA9" -> <<"%", "A", "9">>
      [] OTHER -> <<c>>

\* url.QueryEscape of one byte: unreserved characters stay, a space becomes
\* '+', every other byte becomes %XX.  "0xC3" and "0xA9" are the two bytes of
\* the UTF-8 encoding of a non-ASCII character
EscapeChar(c) ==
    CASE c = " " -> <<"+">>
      [] c = "&" -> <<"%", "2", "6">>
      [] c = "=" -> <<"%", "3", "D">>
      [] c = "+" -> <<"%", "2", "B">>
      [] c = "%" -> <<"%", "2", "5">>
      [] c = "0xC3" -> <<"%", "C", "3">>
      [] c = "0xA9" -> <<"%", "A", "9">>
      [] OTHER -> <<c>>

RECURSIVE QueryEscape(_)
QueryEscape(s) ==
    IF s = <<>> THEN <<>> ELSE EscapeChar(Head(s)) \o QueryEscape(Tail(s))

RECURSIVE TaggingFrom(_, _)
TaggingFrom(tags, i) ==
    IF i > Len(tags) THEN <<>>
    ELSE (IF i > 1 THEN <<"&">> ELSE <<>>)
         \o QueryEscape(awsToString(tags[i].Key)) \o <<"=">>
         \o QueryEscape(awsToString(tags[i].Value))
         \o TaggingFrom(tags, i + 1)

buildTaggingString(tags) ==
    IF Len(tags) = 0 THEN <<>> ELSE TaggingFrom(tags, 1)

-----------------------------------------------------------------------------
(* Metadata maps *)

convertMetadataToPointers(metadata) ==
    IF metadata.isNil THEN NilMap
    ELSE MakeMap([k \in DOMAIN metadata.kv |-> metadata.kv[k]])

convertMetadataFromPointers(metadata) ==
    IF metadata.isNil THEN NilMap
    ELSE MakeMap([k \in {x \in DOMAIN metadata.kv : metadata.kv[x] # NilStr}
                     |-> metadata.kv[k]])

-----------------------------------------------------------------------------
(* The S3 store behind S3Client: one object under bucket/key *)

Bucket == "test-bucket"
Key == "test-key"

\* the owner of the bucket, who gets FULL_CONTROL under a canned ACL
Owner == Grantee("a1", NilStr, NilStr)
AllUsers == Grantee(NilStr, "http://g/AllUsers", NilStr)

\* the descriptive attributes of an object: one record with every attribute set,
\* one with none
AttributeSets ==
    { [ContentType |-> "text/plain", CacheControl |-> "max-age=3600",
       ContentDisposition |-> "attachment", ContentEncoding |-> "gzip",
       ContentLanguage |-> "en-US", WebsiteRedirectLocation |-> "/new",
       StorageClass |-> "STANDARD_IA"],
      [ContentType |-> NilStr, CacheControl |-> NilStr,
       ContentDisposition |-> NilStr, ContentEncoding |-> NilStr,
       ContentLanguage |-> NilStr, WebsiteRedirectLocation |-> NilStr,
       StorageClass |-> ""] }

AttributeNames ==
    {"ContentType", "CacheControl", "ContentDisposition", "ContentEncoding",
     "ContentLanguage", "WebsiteRedirectLocation", "StorageClass"}

\* user metadata of an object: none (a nil map), an empty map, one entry
MetadataSets ==
    { NilMap, MakeMap(<<>>), MakeMap([k \in {"author"} |-> "alice"]) }

\* the tags an object may carry
Tags ==
    { [Key |-> <<"e">>, Value |-> <<"e", "e">>],
      [Key |-> <<"e", "&">>, Value |-> <<" ", "=">>] }

OldContent == "test content"
NewContent == "modified content"

\* the header form of a grantee, as the store reads it from a grant field
HeaderForm(g) ==
    IF g.ID # NilStr THEN "id=\"" \o g.ID \o "\""
    ELSE IF g.URI # NilStr THEN "uri=\"" \o g.URI \o "\""
    ELSE "emailaddress=\"" \o g.EmailAddress \o "\""

\* the grantees a grant field names: the list whose comma-joined header forms it is
ParseGrantees(field) ==
    LET lists == {gs \in SeqsUpTo(Grantees, MaxGrants) :
                     Join([i \in DOMAIN gs |-> HeaderForm(gs[i])], ",") = field}
    IN  IF field = NilStr \/ lists = {} THEN <<>> ELSE CHOOSE gs \in lists : TRUE

GrantsFor(field, permission) ==
    LET gs == ParseGrantees(field)
    IN  [i \in DOMAIN gs |-> [Permission |-> permission, Grantee |-> gs[i]]]

\* the grants a PutObject or PutObjectAcl request carries in its grant fields
RequestGrants(req) ==
    GrantsFor(req.GrantRead, "READ") \o GrantsFor(req.GrantReadACP, "READ_ACP")
    \o GrantsFor(req.GrantWriteACP, "WRITE_ACP")
    \o GrantsFor(req.GrantFullControl, "FULL_CONTROL")
    \o (IF req.type = "PutObjectAclInput"
        THEN GrantsFor(req.GrantWrite, "WRITE") ELSE <<>>)

\* the grants of a canned ACL
CannedGrants(canned) ==
    IF canned = "public-read"
    THEN << [Permission |-> "FULL_CONTROL", Grantee |-> Owner],
            [Permission |-> "READ", Grantee |-> AllUsers] >>
    ELSE << [Permission |-> "FULL_CONTROL", Grantee |-> Owner] >>

\* the position of the first c in s at or after i, or Len(s) + 1
RECURSIVE IndexFrom(_, _, _)
IndexFrom(s, c, i) ==
    IF i > Len(s) THEN Len(s) + 1
    ELSE IF s[i] = c THEN i ELSE IndexFrom(s, c, i + 1)

\* the character a %XX escape stands for
UnescapeHex(h, l) ==
    CASE h = "2" /\ l = "6" -> "&"
      [] h = "3" /\ l = "D" -> "="
      [] h = "2" /\ l = "B" -> "+"
      [] h = "2" /\ l = "5" -> "%"
      [] h = "2" /\ l = "0" -> " "
      [] h = "C" /\ l = "3" -> "0xC3"
      [] h = "A" /\ l = "9" -> "0xA9"
      [] OTHER -> "?"

\* query-string decoding, as the store decodes the Tagging header
RECURSIVE QueryUnescape(_)
QueryUnescape(s) ==
    IF s = <<>> THEN <<>>
    ELSE IF Head(s) = "+" THEN <<" ">> \o QueryUnescape(Tail(s))
    ELSE IF Head(s) = "%" /\ Len(s) >= 3
         THEN <<UnescapeHex(s[2], s[3])>> \o QueryUnescape(SubSeq(s, 4, Len(s)))
    ELSE <<Head(s)>> \o QueryUnescape(Tail(s))

\* the tag set a Tagging header stands for: pairs split at '&', each split at its first '='
RECURSIVE ParseTagging(_)
ParseTagging(t) ==
    IF t = NilChars \/ t = <<>> THEN <<>>
    ELSE LET amp == IndexFrom(t, "&", 1)
             pair == SubSeq(t, 1, amp - 1)
             eq == IndexFrom(pair, "=", 1)
             tag == [Key |-> QueryUnescape(SubSeq(pair, 1, eq - 1)),
                     Value |-> QueryUnescape(SubSeq(pair, eq + 1, Len(pair)))]
         IN  <<tag>> \o ParseTagging(SubSeq(t, amp + 1, Len(t)))

\* the tag count a GetObject response reports for a tag set: absent when there is none
HonestTagCount(tags) == IF Len(tags) = 0 THEN NilCount ELSE Len(tags)

\* the object a successful PutObject leaves in the store
StorePutObject(req) ==
    [exists |-> TRUE,
     Body |-> req.Body,
     Attributes |-> [a \in AttributeNames |-> req[a]],
     Metadata |-> req.Metadata,
     TagSet |-> ParseTagging(req.Tagging),
     TagCount |-> HonestTagCount(ParseTagging(req.Tagging)),
     Grants |-> IF req.ACL # "" THEN CannedGrants(req.ACL) ELSE RequestGrants(req)]

\* the object a successful PutObjectAcl leaves in the store
StorePutObjectAcl(obj, req) == [obj EXCEPT !.Grants = RequestGrants(req)]

\* the objects the store may hold when the entry point is called
StoredObjects ==
    [exists : {TRUE},
     Body : {OldContent},
     Attributes : AttributeSets,
     Metadata : MetadataSets,
     TagSet : SeqsUpTo(Tags, MaxTags),
     TagCount : {NilCount} \cup (0..MaxTags),
     Grants : SeqsUpTo(Grants, MaxGrants)]

\* no object under the key
NoObject ==
    [exists |-> FALSE, Body |-> "", Attributes |-> CHOOSE a \in AttributeSets : a.ContentType = NilStr,
     Metadata |-> NilMap, TagSet |-> <<>>, TagCount |-> NilCount, Grants |-> <<>>]

-----------------------------------------------------------------------------
(* Local files *)

\* tmpFile.Name(), a file the callback creates, and a path where no file is
TmpPath == "/tmp/s3-overwrite-1.tmp"
OutPath == "/tmp/formatted-1.json"
MissingPath == "/tmp/missing"

Paths == {TmpPath, OutPath, MissingPath}

NoFile == "<no file>"

\* the content of the file at path, NoFile when there is none
FileAt(files, path) == IF path \in DOMAIN files THEN files[path] ELSE NoFile

\* os.Remove(path)
Remove(files, path) ==
    IF path \in DOMAIN files THEN [files EXCEPT ![path] = NoFile] ELSE files

\* mutant: the temporary file is closed and not removed
RunOneKeepTmp(files, name, path) ==
    CASE name = "removeOverwritingFile" -> Remove(files, path)
      [] OTHER -> files

\* the deferred functions of the entry points, run last registered first
RunOne(files, name, path) ==
    CASE name = "removeTmpFile" -> Remove(files, TmpPath)
      [] name = "removeOverwritingFile" -> Remove(files, path)
      [] OTHER -> files

RECURSIVE RunDeferred(_, _, _)
RunDeferred(files, defs, path) ==
    IF defs = <<>> THEN files
    ELSE RunDeferred(RunOne(files, defs[Len(defs)], path),
                     SubSeq(defs, 1, Len(defs) - 1), path)

-----------------------------------------------------------------------------
(* Errors: fmt.Errorf("<msg>: %w", err) *)

NilError == [msg |-> NilStr, cause |-> NilStr]

\* mutant: the cause is formatted into the message and not wrapped
ErrorfNoWrap(msg, err) == [msg |-> msg, cause |-> NilStr]

Errorf(msg, err) == [msg |-> msg, cause |-> err]

\* the errors a store call or a local file operation fails with
RequestError == "RequestError"
NoSuchKey == "NoSuchKey"
IOError == "IOError"
CallbackFailure == "intentional error"
NotExist == "file does not exist"

\* one entry of the call log: the operation and the error it returned
Call(op, err) == [op |-> op, err |-> err]

\* ctx has been cancelled: the cancellation is an entry of the call log
Cancelled == \E i \in DOMAIN calls : calls[i].op = "Cancel"

\* ctx.Err() after the cancellation
ContextCanceled == "context canceled"

\* the error a store call fails with
ClientError == IF Cancelled THEN ContextCanceled ELSE RequestError

-----------------------------------------------------------------------------
(* The entry points *)

Modes == {"OverwriteS3Object", "OverwriteS3ObjectWithAcl"}

CannedAcls == {"private", "public-read"}

NoResponse ==
    [Body |-> "", Attributes |-> NoObject.Attributes, Metadata |-> NilMap,
     TagCount |-> NilCount]

NoInfo ==
    [Bucket |-> "", Key |-> "", ContentType |-> NilStr, Metadata |-> NilMap,
     StorageClass |-> NilStr, TagCount |-> NilCount]

\* no serializer is called on its own
NoArgs == [fn |-> "", grants |-> <<>>, permission |-> ""]

\* the local state of an invocation
Locals ==
    [pc |-> pc, mode |-> mode, acl |-> acl, getResp |-> getResp, fs |-> fs,
     info |-> info, cbInfo |-> cbInfo,
     overwritingFilePath |-> overwritingFilePath, autoRemove |-> autoRemove,
     deferred |-> deferred, tagging |-> tagging, tagResp |-> tagResp,
     aclResp |-> aclResp, result |-> result]

\* the local state of an invocation of entry point m at position p
FreshLocals(m, a, p) ==
    [pc |-> p, mode |-> m, acl |-> a, getResp |-> NoResponse,
     fs |-> [q \in Paths |-> NoFile], info |-> NoInfo, cbInfo |-> NoInfo,
     overwritingFilePath |-> "", autoRemove |-> FALSE, deferred |-> <<>>,
     tagging |-> NilChars, tagResp |-> <<>>, aclResp |-> <<>>,
     result |-> NilError]

\* there is no second invocation
NoOther == FreshLocals("", "", "absent")

\* the store holds obj and nothing has been done yet
Fresh(obj, m, a) ==
    /\ other = NoOther
    /\ store = obj
    /\ before = obj
    /\ mode = m
    /\ acl = a
    /\ getResp = NoResponse
    /\ fs = [p \in Paths |-> NoFile]
    /\ info = NoInfo
    /\ cbInfo = NoInfo
    /\ overwritingFilePath = ""
    /\ autoRemove = FALSE
    /\ deferred = <<>>
    /\ tagging = NilChars
    /\ tagResp = <<>>
    /\ aclResp = <<>>
    /\ calls = <<>>
    /\ putLog = <<>>
    /\ aclLog = <<>>
    /\ result = NilError

\* the state in which an entry point is called on the stored object obj
Called(obj, m, a) ==
    /\ Fresh(obj, m, a)
    /\ pc = "GetObject"
    /\ args = NoArgs
    /\ ret = NilStr

\* the grant lists of the unit tests: none, WRITE for a group, READ plus FULL_CONTROL
AclSamples ==
    { <<>>,
      << [Permission |-> "WRITE", Grantee |-> AllUsers] >>,
      << [Permission |-> "READ", Grantee |-> AllUsers],
         [Permission |-> "FULL_CONTROL", Grantee |-> Owner] >> }

Init ==
    \E obj \in {o \in StoredObjects : o.Grants \in AclSamples} \cup {NoObject} :
        \/ Called(obj, "OverwriteS3Object", "")
        \/ \E a \in CannedAcls : Called(obj, "OverwriteS3ObjectWithAcl", a)

\* return err: the deferred functions run and the call is over
Return(err, files, defs, path) ==
    /\ pc' = "returned"
    /\ result' = err
    /\ fs' = RunDeferred(files, defs, path)
    /\ deferred' = <<>>

\* client.GetObject succeeds
GetObject ==
    /\ pc = "GetObject"
    /\ store.exists
    /\ calls' = Append(calls, Call("GetObject", NilStr))
    /\ getResp' = [Body |-> store.Body, Attributes |-> store.Attributes,
                   Metadata |-> store.Metadata, TagCount |-> store.TagCount]
    /\ deferred' = Append(deferred, "closeBody")
    /\ pc' = "Download"
    /\ UNCHANGED <<store, before, mode, acl, args, ret, other, fs, info, cbInfo,
                   overwritingFilePath, autoRemove, tagging, tagResp, aclResp,
                   putLog, aclLog, result>>

\* client.GetObject fails: the key does not exist, or the request fails
GetObjectFails ==
    /\ pc = "GetObject"
    /\ \E e \in (IF store.exists THEN {ClientError} ELSE {NoSuchKey}) :
        /\ calls' = Append(calls, Call("GetObject", e))
        /\ Return(Errorf("failed to get object", e), fs, deferred,
                  overwritingFilePath)
    /\ UNCHANGED <<store, before, mode, acl, args, ret, other, getResp, info,
                   cbInfo, overwritingFilePath, autoRemove, tagging, tagResp,
                   aclResp, putLog, aclLog>>

\* os.CreateTemp fails
CreateTempFails ==
    /\ pc = "Download"
    /\ calls' = Append(calls, Call("CreateTemp", IOError))
    /\ Return(Errorf("failed to create temp file", IOError), fs, deferred,
              overwritingFilePath)
    /\ UNCHANGED <<store, before, mode, acl, args, ret, other, getResp, info,
                   cbInfo, overwritingFilePath, autoRemove, tagging, tagResp,
                   aclResp, putLog, aclLog>>

\* the temporary file is created; io.Copy or tmpFile.Seek fails
CopyFails ==
    /\ pc = "Download"
    /\ calls' = Append(calls, Call("CreateTemp", NilStr))
    /\ \E msg \in {"failed to copy object content", "failed to seek temp file"} :
           Return(Errorf(msg, IOError), [fs EXCEPT ![TmpPath] = ""],
                  Append(deferred, "removeTmpFile"), overwritingFilePath)
    /\ UNCHANGED <<store, before, mode, acl, args, ret, other, getResp, info,
                   cbInfo, overwritingFilePath, autoRemove, tagging, tagResp,
                   aclResp, putLog, aclLog>>

\* mutant: the body is not copied into the temporary file
DownloadWithoutCopy ==
    /\ pc = "Download"
    /\ calls' = Append(calls, Call("CreateTemp", NilStr))
    /\ deferred' = Append(deferred, "removeTmpFile")
    /\ fs' = [fs EXCEPT ![TmpPath] = ""]
    /\ info' = [Bucket |-> Bucket, Key |-> Key,
                ContentType |-> getResp.Attributes.ContentType,
                Metadata |-> convertMetadataToPointers(getResp.Metadata),
                StorageClass |-> getResp.Attributes.StorageClass,
                TagCount |-> ToInt32(getResp.TagCount)]
    /\ pc' = "Callback"
    /\ UNCHANGED <<store, before, mode, acl, args, ret, other, getResp, cbInfo,
                   overwritingFilePath, autoRemove, tagging, tagResp, aclResp,
                   putLog, aclLog, result>>

\* the temporary file is created and filled with the body; info is built
Download ==
    /\ pc = "Download"
    /\ calls' = Append(calls, Call("CreateTemp", NilStr))
    /\ deferred' = Append(deferred, "removeTmpFile")
    /\ fs' = [fs EXCEPT ![TmpPath] = getResp.Body]
    /\ info' = [Bucket |-> Bucket, Key |-> Key,
                ContentType |-> getResp.Attributes.ContentType,
                Metadata |-> convertMetadataToPointers(getResp.Metadata),
                StorageClass |-> getResp.Attributes.StorageClass,
                TagCount |-> ToInt32(getResp.TagCount)]
    /\ pc' = "Callback"
    /\ UNCHANGED <<store, before, mode, acl, args, ret, other, getResp, cbInfo,
                   overwritingFilePath, autoRemove, tagging, tagResp, aclResp,
                   putLog, aclLog, result>>

\* what a callback may do: the result it returns, its autoRemove flag, what it
\* does to info.Metadata, whether it rewrites the file at srcFilePath, and the
\* field of info it writes (none here, see InfoCallbacks)
CallbackBehaviours ==
    [ret : {"error", "skip", "src", "new", "missing"},
     autoRemove : BOOLEAN,
     meta : {"none", "add", "change", "delete"},
     edit : BOOLEAN,
     set : {"none"}]

\* the writes a callback can make to the other fields of its ObjectInfo
\*   ContentType:  info.ContentType = aws.String("application/json")
\*   *ContentType: *info.ContentType = "application/json"
\*   StorageClass: *info.StorageClass = "GLACIER"
\*   TagCount:     *info.TagCount = 0
\*   Key:          info.Key = "other"
InfoWrites == {"none", "ContentType", "*ContentType", "StorageClass", "TagCount", "Key"}

\* callbacks that return a file and write one field of info
InfoCallbacks ==
    [ret : {"src", "new"}, autoRemove : {FALSE}, meta : {"none", "add"},
     edit : {FALSE}, set : InfoWrites]

JsonContentType == "application/json"

\* info as the callback's statement leaves it in the callback's copy
InfoWritten(i, w) ==
    CASE w \in {"ContentType", "*ContentType"} ->
             [i EXCEPT !.ContentType = JsonContentType]
      [] w = "StorageClass" -> [i EXCEPT !.StorageClass = "GLACIER"]
      [] w = "TagCount" -> [i EXCEPT !.TagCount = 0]
      [] w = "Key" -> [i EXCEPT !.Key = "other"]
      [] OTHER -> i

\* mutant: info.ContentType is a copy of the fetched string
PointeeWrittenNoAlias(resp, w) == resp

\* info.ContentType is the pointer getResp.ContentType: a write through it
\* changes the string the response holds.  info.StorageClass and info.TagCount
\* point to copies (aws.String, aws.Int64), info.Key is a string
PointeeWritten(resp, w) ==
    IF w = "*ContentType"
    THEN [resp EXCEPT !.Attributes.ContentType = JsonContentType]
    ELSE resp

\* the entry point's info after the callback: a struct passed by value, of
\* which the callback reaches the metadata map and the content type string
InfoShared(i, w) ==
    IF w = "*ContentType" THEN [i EXCEPT !.ContentType = JsonContentType] ELSE i

\* statements a callback can execute on the info it is given
CanWrite(i, w) ==
    CASE w = "*ContentType" -> i.ContentType # NilStr   \* nil dereference
      [] w = "StorageClass" -> i.StorageClass # NilStr
      [] OTHER -> TRUE

\* the map the entry point holds after the callback's metadata statements
\*   add:    if info.Metadata == nil { info.Metadata = make(...) }; info.Metadata["formatted"] = "true"
\*   change: info.Metadata["author"] = "bob"
\*   delete: delete(info.Metadata, "author")
\* info is passed by value: only writes through the shared map reach the entry point
SharedMetadata(m, op) ==
    IF m.isNil THEN m
    ELSE CASE op = "add" -> MakeMap([k \in DOMAIN m.kv \cup {"formatted"} |->
                                        IF k = "formatted" THEN "true" ELSE m.kv[k]])
           [] op = "change" -> MakeMap([k \in DOMAIN m.kv \cup {"author"} |->
                                           IF k = "author" THEN "bob" ELSE m.kv[k]])
           [] op = "delete" -> MakeMap([k \in DOMAIN m.kv \ {"author"} |-> m.kv[k]])
           [] OTHER -> m

\* the map the callback's own copy of info holds when it returns
CallbackMetadata(m, op) ==
    IF m.isNil /\ op = "add" THEN MakeMap([k \in {"formatted"} |-> "true"])
    ELSE SharedMetadata(m, op)

\* statements a callback can execute on the map it is given
CanDo(m, op) ==
    CASE op = "change" -> ~m.isNil   \* a write to a nil map panics
      [] op = "delete" -> ~m.isNil /\ "author" \in DOMAIN m.kv
      [] OTHER -> TRUE

ReturnedPath(cb) ==
    CASE cb.ret = "src" -> TmpPath
      [] cb.ret \in {"new", "failed"} -> OutPath
      [] cb.ret = "missing" -> MissingPath
      [] OTHER -> ""

\* the err result of the callback
CallbackError(cb) ==
    IF cb.ret \in {"error", "failed"} THEN CallbackFailure ELSE NilStr

\* mutant: the empty path is not checked
CallbackOutcomeNoSkip(err, path) ==
    IF err # NilStr THEN "error" ELSE "write"

\* mutant: err is not checked
CallbackOutcomeIgnoresError(err, path) ==
    IF path = "" THEN "skip" ELSE "write"

\* what the entry point does with the callback's results: return the error,
\* return nil without writing, or go on to the write
CallbackOutcome(err, path) ==
    IF err # NilStr THEN "error"
    ELSE IF path = "" THEN "skip"
    ELSE "write"

\* mutant: the ACL is fetched by both entry points
AfterTagsAlwaysAcl == "GetObjectAcl"

\* the step after the tags: only OverwriteS3Object fetches the ACL
AfterTags == IF mode = "OverwriteS3Object" THEN "GetObjectAcl" ELSE "PutObject"

\* mutant: a tag count of zero is taken for tags
AfterCallbackAnyCount ==
    IF getResp.TagCount # NilCount THEN "GetObjectTagging" ELSE AfterTags

\* mutant: the tags are never fetched
AfterCallbackSkipsTags == AfterTags

\* the step after the callback: the tag fetch is skipped without a positive tag count
AfterCallback ==
    IF getResp.TagCount # NilCount /\ getResp.TagCount > 0
    THEN "GetObjectTagging" ELSE AfterTags

\* mutant: the removal is deferred whatever the flag
DeferRemoveWhateverFlag(flag, path, defs) ==
    IF path # "" /\ path # TmpPath
    THEN Append(defs, "removeOverwritingFile") ELSE defs

\* mutant: the path is not compared with tmpFile.Name()
DeferRemoveAnyPath(flag, path, defs) ==
    IF flag /\ path # ""
    THEN Append(defs, "removeOverwritingFile") ELSE defs

\* if autoRemove && overwritingFilePath != "" && overwritingFilePath != tmpFile.Name()
\*     { defer os.Remove(overwritingFilePath) }
DeferRemove(flag, path, defs) ==
    IF flag /\ path # "" /\ path # TmpPath
    THEN Append(defs, "removeOverwritingFile") ELSE defs

\* mutant: the removal of the returned file is deferred before err is checked
CallbackWithRemovalDeferredFirst(behaviours) ==
    /\ pc = "Callback"
    /\ \E cb \in behaviours :
        /\ CanDo(info.Metadata, cb.meta)
        /\ CanWrite(info, cb.set)
        /\ cb.edit => cb.ret \in {"src", "new"}
        /\ LET files == [fs EXCEPT ![TmpPath] = IF cb.edit THEN NewContent ELSE @,
                                   ![OutPath] = IF cb.ret \in {"new", "failed"}
                                                THEN NewContent ELSE @]
               path == ReturnedPath(cb)
               defs == DeferRemove(cb.autoRemove, path, deferred)
           IN  /\ calls' = Append(calls, Call("Callback", CallbackError(cb)))
               /\ info' = InfoShared(
                      [info EXCEPT !.Metadata = SharedMetadata(@, cb.meta)],
                      cb.set)
               /\ cbInfo' = InfoWritten(
                      [info EXCEPT !.Metadata = CallbackMetadata(@, cb.meta)],
                      cb.set)
               /\ getResp' = PointeeWritten(getResp, cb.set)
               /\ overwritingFilePath' = path
               /\ autoRemove' = cb.autoRemove
               /\ IF CallbackOutcome(CallbackError(cb), path) = "error"
                  THEN Return(Errorf("callback error", CallbackError(cb)), files,
                              defs, path)
                  ELSE IF CallbackOutcome(CallbackError(cb), path) = "skip"
                  THEN Return(NilError, files, deferred, path)
                  ELSE /\ fs' = files
                       /\ deferred' = defs
                       /\ pc' = AfterCallback
                       /\ UNCHANGED result
    /\ UNCHANGED <<store, before, mode, acl, args, ret, other, tagging, tagResp,
                   aclResp, putLog, aclLog>>

\* callback(info, tmpFile.Name()) and the handling of its results, for a
\* callback that behaves in one of the given ways
CallbackWith(behaviours) ==
    /\ pc = "Callback"
    /\ \E cb \in behaviours :
        /\ CanDo(info.Metadata, cb.meta)
        /\ CanWrite(info, cb.set)
        /\ cb.edit => cb.ret \in {"src", "new"}
        /\ LET files == [fs EXCEPT ![TmpPath] = IF cb.edit THEN NewContent ELSE @,
                                   ![OutPath] = IF cb.ret \in {"new", "failed"}
                                                THEN NewContent ELSE @]
               path == ReturnedPath(cb)
               defs == DeferRemove(cb.autoRemove, path, deferred)
           IN  /\ calls' = Append(calls, Call("Callback", CallbackError(cb)))
               /\ info' = InfoShared(
                      [info EXCEPT !.Metadata = SharedMetadata(@, cb.meta)],
                      cb.set)
               /\ cbInfo' = InfoWritten(
                      [info EXCEPT !.Metadata = CallbackMetadata(@, cb.meta)],
                      cb.set)
               /\ getResp' = PointeeWritten(getResp, cb.set)
               /\ overwritingFilePath' = path
               /\ autoRemove' = cb.autoRemove
               /\ IF CallbackOutcome(CallbackError(cb), path) = "error"
                  THEN Return(Errorf("callback error", CallbackError(cb)), files,
                              deferred, path)
                  ELSE IF CallbackOutcome(CallbackError(cb), path) = "skip"
                  THEN Return(NilError, files, deferred, path)
                  ELSE /\ fs' = files
                       /\ deferred' = defs
                       /\ pc' = AfterCallback
                       /\ UNCHANGED result
    /\ UNCHANGED <<store, before, mode, acl, args, ret, other, tagging, tagResp,
                   aclResp, putLog, aclLog>>

\* any callback
Callback == CallbackWith(CallbackBehaviours)

\* mutant: the length of the tag set is not checked
TaggingOfAlways(tagSet, old) == buildTaggingString(tagSet)

\* tagging after the tag fetch: set only when the tag set is not empty
TaggingOf(tagSet, old) ==
    IF Len(tagSet) > 0 THEN buildTaggingString(tagSet) ELSE old

\* mutant: the tags are those the object had when GetObject read it
GetObjectTaggingOfSnapshot ==
    /\ pc = "GetObjectTagging"
    /\ calls' = Append(calls, Call("GetObjectTagging", NilStr))
    /\ tagResp' = before.TagSet
    /\ tagging' = TaggingOf(before.TagSet, tagging)
    /\ pc' = AfterTags
    /\ UNCHANGED <<store, before, mode, acl, args, ret, other, getResp, fs, info,
                   cbInfo, overwritingFilePath, autoRemove, deferred, aclResp,
                   putLog, aclLog, result>>

\* client.GetObjectTagging succeeds
GetObjectTagging ==
    /\ pc = "GetObjectTagging"
    /\ calls' = Append(calls, Call("GetObjectTagging", NilStr))
    /\ tagResp' = store.TagSet
    /\ tagging' = TaggingOf(store.TagSet, tagging)
    /\ pc' = AfterTags
    /\ UNCHANGED <<store, before, mode, acl, args, ret, other, getResp, fs,
                   info, cbInfo, overwritingFilePath, autoRemove, deferred,
                   aclResp, putLog, aclLog, result>>

\* mutant: the error of GetObjectTagging is dropped and the call goes on
GetObjectTaggingFailsGoesOn ==
    /\ pc = "GetObjectTagging"
    /\ calls' = Append(calls, Call("GetObjectTagging", ClientError))
    /\ pc' = AfterTags
    /\ UNCHANGED <<store, before, mode, acl, args, ret, other, getResp, fs,
                   info, cbInfo, overwritingFilePath, autoRemove, deferred,
                   tagging, tagResp, aclResp, putLog, aclLog, result>>

\* client.GetObjectTagging fails
GetObjectTaggingFails ==
    /\ pc = "GetObjectTagging"
    /\ calls' = Append(calls, Call("GetObjectTagging", ClientError))
    /\ Return(Errorf("failed to get object tagging", ClientError), fs, deferred,
              overwritingFilePath)
    /\ UNCHANGED <<store, before, mode, acl, args, ret, other, getResp, info,
                   cbInfo, overwritingFilePath, autoRemove, tagging, tagResp,
                   aclResp, putLog, aclLog>>

\* client.GetObjectAcl succeeds (OverwriteS3Object only)
GetObjectAcl ==
    /\ pc = "GetObjectAcl"
    /\ calls' = Append(calls, Call("GetObjectAcl", NilStr))
    /\ aclResp' = store.Grants
    /\ pc' = "PutObject"
    /\ UNCHANGED <<store, before, mode, acl, args, ret, other, getResp, fs,
                   info, cbInfo, overwritingFilePath, autoRemove, deferred,
                   tagging, tagResp, putLog, aclLog, result>>

\* mutant: a failed GetObjectAcl is tried again
GetObjectAclFailsRetries ==
    /\ pc = "GetObjectAcl"
    /\ calls' = Append(calls, Call("GetObjectAcl", ClientError))
    /\ UNCHANGED <<store, before, mode, acl, args, ret, other, pc, getResp, fs,
                   info, cbInfo, overwritingFilePath, autoRemove, deferred,
                   tagging, tagResp, aclResp, putLog, aclLog, result>>

\* client.GetObjectAcl fails
GetObjectAclFails ==
    /\ pc = "GetObjectAcl"
    /\ calls' = Append(calls, Call("GetObjectAcl", ClientError))
    /\ Return(Errorf("failed to get object ACL", ClientError), fs, deferred,
              overwritingFilePath)
    /\ UNCHANGED <<store, before, mode, acl, args, ret, other, getResp, info,
                   cbInfo, overwritingFilePath, autoRemove, tagging, tagResp,
                   aclResp, putLog, aclLog>>

\* os.Open(overwritingFilePath) fails
\* mutant: the open failure is not returned
OpenFailsUnreported ==
    /\ pc = "PutObject"
    /\ FileAt(fs, overwritingFilePath) = NoFile
    /\ Return(NilError, fs, deferred, overwritingFilePath)
    /\ UNCHANGED <<store, before, mode, acl, args, ret, other, getResp, info,
                   cbInfo, overwritingFilePath, autoRemove, tagging, tagResp,
                   aclResp, calls, putLog, aclLog>>

OpenFails ==
    /\ pc = "PutObject"
    /\ FileAt(fs, overwritingFilePath) = NoFile
    /\ Return(Errorf("failed to open overwriting file", NotExist), fs, deferred,
              overwritingFilePath)
    /\ UNCHANGED <<store, before, mode, acl, args, ret, other, getResp, info,
                   cbInfo, overwritingFilePath, autoRemove, tagging, tagResp,
                   aclResp, calls, putLog, aclLog>>

\* mutant: CacheControl is left out
CarriedAttributesNoCacheControl ==
    [ContentType |-> getResp.Attributes.ContentType,
     CacheControl |-> NilStr,
     ContentDisposition |-> getResp.Attributes.ContentDisposition,
     ContentEncoding |-> getResp.Attributes.ContentEncoding,
     ContentLanguage |-> getResp.Attributes.ContentLanguage,
     WebsiteRedirectLocation |-> getResp.Attributes.WebsiteRedirectLocation,
     StorageClass |-> getResp.Attributes.StorageClass]

\* the descriptive attributes both entry points copy from getResp to putInput
CarriedAttributes ==
    [ContentType |-> getResp.Attributes.ContentType,
     CacheControl |-> getResp.Attributes.CacheControl,
     ContentDisposition |-> getResp.Attributes.ContentDisposition,
     ContentEncoding |-> getResp.Attributes.ContentEncoding,
     ContentLanguage |-> getResp.Attributes.ContentLanguage,
     WebsiteRedirectLocation |-> getResp.Attributes.WebsiteRedirectLocation,
     StorageClass |-> getResp.Attributes.StorageClass]

\* mutant: the temporary file is uploaded whatever path the callback returned
uploadFileIsTmpFile == FileAt(fs, TmpPath)

\* uploadFile, err := os.Open(overwritingFilePath): what the store reads from it
uploadFile == FileAt(fs, overwritingFilePath)

\* the fields both entry points set on the PutObjectInput
PutInputFields(canned) ==
    [type |-> "PutObjectInput",
     Bucket |-> Bucket,
     Key |-> Key,
     Body |-> uploadFile,
     ACL |-> canned,
     ContentType |-> CarriedAttributes.ContentType,
     CacheControl |-> CarriedAttributes.CacheControl,
     ContentDisposition |-> CarriedAttributes.ContentDisposition,
     ContentEncoding |-> CarriedAttributes.ContentEncoding,
     ContentLanguage |-> CarriedAttributes.ContentLanguage,
     WebsiteRedirectLocation |-> CarriedAttributes.WebsiteRedirectLocation,
     StorageClass |-> CarriedAttributes.StorageClass,
     Metadata |-> convertMetadataFromPointers(info.Metadata),
     Tagging |-> tagging,
     GrantRead |-> NilStr,
     GrantReadACP |-> NilStr,
     GrantWriteACP |-> NilStr,
     GrantFullControl |-> NilStr]

\* mutant: OverwriteS3ObjectWithAcl sends no tags
PutInputAclWithoutTagging ==
    IF mode = "OverwriteS3Object"
    THEN addGrantsToInput(PutInputFields(""), aclResp, FALSE)
    ELSE [PutInputFields(acl) EXCEPT !.Tagging = NilChars]

\* putInput as each entry point builds it
PutInput ==
    IF mode = "OverwriteS3Object"
    THEN addGrantsToInput(PutInputFields(""), aclResp, FALSE)
    ELSE PutInputFields(acl)

\* aclInput of OverwriteS3Object
AclInput ==
    addGrantsToInput(
        [type |-> "PutObjectAclInput", Bucket |-> Bucket, Key |-> Key,
         GrantRead |-> NilStr, GrantReadACP |-> NilStr, GrantWriteACP |-> NilStr,
         GrantFullControl |-> NilStr, GrantWrite |-> NilStr],
        aclResp, TRUE)

\* whether OverwriteS3Object goes on to restore the WRITE grants
NeedsRestore == mode = "OverwriteS3Object" /\ hasWriteGrant(aclResp)

\* mutant: the write is conditional on the object still being the fetched one
PutObjectIfUnchanged ==
    /\ pc = "PutObject"
    /\ FileAt(fs, overwritingFilePath) # NoFile
    /\ putLog' = Append(putLog, PutInput)
    /\ IF store.Body = getResp.Body /\ store.Metadata = getResp.Metadata
       THEN /\ calls' = Append(calls, Call("PutObject", NilStr))
            /\ store' = StorePutObject(PutInput)
            /\ IF NeedsRestore
               THEN /\ pc' = "PutObjectAcl"
                    /\ deferred' = Append(deferred, "closeUploadFile")
                    /\ UNCHANGED <<fs, result>>
               ELSE Return(NilError, fs, Append(deferred, "closeUploadFile"),
                           overwritingFilePath)
       ELSE /\ calls' = Append(calls, Call("PutObject", "PreconditionFailed"))
            /\ store' = store
            /\ Return(Errorf("failed to put object", "PreconditionFailed"), fs,
                      Append(deferred, "closeUploadFile"), overwritingFilePath)
    /\ UNCHANGED <<before, mode, acl, args, ret, other, getResp, info, cbInfo,
                   overwritingFilePath, autoRemove, tagging, tagResp, aclResp,
                   aclLog>>

\* the file is opened and client.PutObject succeeds
PutObject ==
    /\ pc = "PutObject"
    /\ FileAt(fs, overwritingFilePath) # NoFile
    /\ calls' = Append(calls, Call("PutObject", NilStr))
    /\ putLog' = Append(putLog, PutInput)
    /\ store' = StorePutObject(PutInput)
    /\ IF NeedsRestore
       THEN /\ pc' = "PutObjectAcl"
            /\ deferred' = Append(deferred, "closeUploadFile")
            /\ UNCHANGED <<fs, result, other>>
       ELSE Return(NilError, fs, Append(deferred, "closeUploadFile"),
                   overwritingFilePath)
    /\ UNCHANGED <<before, mode, acl, args, ret, other, getResp, info, cbInfo,
                   overwritingFilePath, autoRemove, tagging, tagResp, aclResp,
                   aclLog>>

\* mutant: the WRITE grants are restored although PutObject failed
PutObjectFailsThenRestores ==
    /\ pc = "PutObject"
    /\ FileAt(fs, overwritingFilePath) # NoFile
    /\ calls' = Append(calls, Call("PutObject", ClientError))
    /\ putLog' = Append(putLog, PutInput)
    /\ IF NeedsRestore
       THEN /\ pc' = "PutObjectAcl"
            /\ deferred' = Append(deferred, "closeUploadFile")
            /\ UNCHANGED <<fs, result, other>>
       ELSE Return(Errorf("failed to put object", ClientError), fs,
                   Append(deferred, "closeUploadFile"), overwritingFilePath)
    /\ UNCHANGED <<store, before, mode, acl, args, ret, other, getResp, info,
                   cbInfo, overwritingFilePath, autoRemove, tagging, tagResp,
                   aclResp, aclLog>>

\* the file is opened and client.PutObject fails
PutObjectFails ==
    /\ pc = "PutObject"
    /\ FileAt(fs, overwritingFilePath) # NoFile
    /\ calls' = Append(calls, Call("PutObject", ClientError))
    /\ putLog' = Append(putLog, PutInput)
    /\ Return(Errorf("failed to put object", ClientError), fs,
              Append(deferred, "closeUploadFile"), overwritingFilePath)
    /\ UNCHANGED <<store, before, mode, acl, args, ret, other, getResp, info,
                   cbInfo, overwritingFilePath, autoRemove, tagging, tagResp,
                   aclResp, aclLog>>

\* client.PutObjectAcl succeeds
PutObjectAcl ==
    /\ pc = "PutObjectAcl"
    /\ calls' = Append(calls, Call("PutObjectAcl", NilStr))
    /\ aclLog' = Append(aclLog, AclInput)
    /\ store' = StorePutObjectAcl(store, AclInput)
    /\ Return(NilError, fs, deferred, overwritingFilePath)
    /\ UNCHANGED <<before, mode, acl, args, ret, other, getResp, info, cbInfo,
                   overwritingFilePath, autoRemove, tagging, tagResp, aclResp,
                   putLog>>

\* mutant: the write is undone when PutObjectAcl fails
PutObjectAclFailsRollsBack ==
    /\ pc = "PutObjectAcl"
    /\ calls' = Append(calls, Call("PutObjectAcl", ClientError))
    /\ aclLog' = Append(aclLog, AclInput)
    /\ store' = before
    /\ Return(Errorf("failed to put object ACL", ClientError), fs, deferred,
              overwritingFilePath)
    /\ UNCHANGED <<before, mode, acl, args, ret, other, getResp, info, cbInfo,
                   overwritingFilePath, autoRemove, tagging, tagResp, aclResp,
                   putLog>>

\* mutant: the failure of PutObjectAcl is reported with the message of PutObject
PutObjectAclFailsAsPutObject ==
    /\ pc = "PutObjectAcl"
    /\ calls' = Append(calls, Call("PutObjectAcl", ClientError))
    /\ aclLog' = Append(aclLog, AclInput)
    /\ Return(Errorf("failed to put object", ClientError), fs, deferred,
              overwritingFilePath)
    /\ UNCHANGED <<store, before, mode, acl, args, ret, other, getResp, info,
                   cbInfo, overwritingFilePath, autoRemove, tagging, tagResp,
                   aclResp, putLog>>

\* mutant: the failure of PutObjectAcl is not reported
PutObjectAclFailsSilently ==
    /\ pc = "PutObjectAcl"
    /\ calls' = Append(calls, Call("PutObjectAcl", ClientError))
    /\ aclLog' = Append(aclLog, AclInput)
    /\ Return(NilError, fs, deferred, overwritingFilePath)
    /\ UNCHANGED <<store, before, mode, acl, args, ret, other, getResp, info,
                   cbInfo, overwritingFilePath, autoRemove, tagging, tagResp,
                   aclResp, putLog>>

\* client.PutObjectAcl fails
PutObjectAclFails ==
    /\ pc = "PutObjectAcl"
    /\ calls' = Append(calls, Call("PutObjectAcl", ClientError))
    /\ aclLog' = Append(aclLog, AclInput)
    /\ Return(Errorf("failed to put object ACL", ClientError), fs, deferred,
              overwritingFilePath)
    /\ UNCHANGED <<store, before, mode, acl, args, ret, other, getResp, info,
                   cbInfo, overwritingFilePath, autoRemove, tagging, tagResp,
                   aclResp, putLog>>

Next ==
    \/ GetObject
    \/ GetObjectFails
    \/ CreateTempFails
    \/ CopyFails
    \/ Download
    \/ Callback
    \/ GetObjectTagging
    \/ GetObjectTaggingFails
    \/ GetObjectAcl
    \/ GetObjectAclFails
    \/ OpenFails
    \/ PutObject
    \/ PutObjectFails
    \/ PutObjectAcl
    \/ PutObjectAclFails

Spec == Init /\ [][Next]_vars

\* OverwriteS3Object on tagged objects carrying every grant list up to MaxGrants
InitAcl ==
    \E obj \in StoredObjects :
        /\ obj.Attributes.ContentType # NilStr
        /\ obj.Metadata = NilMap
        /\ obj.TagSet = <<[Key |-> <<"e">>, Value |-> <<"e", "e">>]>>
        /\ obj.TagCount = HonestTagCount(obj.TagSet)
        /\ Called(obj, "OverwriteS3Object", "")

SpecAcl == InitAcl /\ [][Next]_vars

\* a grantee of which the store reports the type only: ID, URI and
\* EmailAddress are nil
NoIdentifier == Grantee(NilStr, NilStr, NilStr)

\* the grants of an ACL some of whose grantees come without an identifier
UnidentifiedGrants == [Permission : Permissions, Grantee : {NoIdentifier, AllUsers}]

\* OverwriteS3Object on an object whose GetObjectAcl returns such grants
InitUnidentified ==
    \E obj \in StoredObjects, gs \in SeqsUpTo(UnidentifiedGrants, MaxGrants) :
        /\ obj.Attributes.ContentType # NilStr
        /\ obj.Metadata = NilMap
        /\ obj.TagSet = <<[Key |-> <<"e">>, Value |-> <<"e", "e">>]>>
        /\ obj.TagCount = HonestTagCount(obj.TagSet)
        /\ obj.Grants = <<>>
        /\ Called([obj EXCEPT !.Grants = gs], "OverwriteS3Object", "")

SpecUnidentified == InitUnidentified /\ [][Next]_vars

\* callbacks that return srcFilePath and touch neither the file nor the metadata:
\*   return srcFilePath, autoRemove, nil
IdentityCallbacks ==
    {cb \in CallbackBehaviours : cb.ret = "src" /\ cb.meta = "none" /\ ~cb.edit}

IdentityCallback == CallbackWith(IdentityCallbacks)

\* the entry point has returned nil after a PutObject and is called once more
\* with the same arguments: every local variable is new, the store is as the
\* call before left it
ApplyAgain ==
    /\ pc = "returned"
    /\ result = NilError
    /\ calls # <<>> /\ calls[Len(calls)].op \in {"PutObject", "PutObjectAcl"}
    /\ Cardinality({i \in DOMAIN calls : calls[i].op = "GetObject"}) < MaxInvocations
    /\ before' = store
    /\ pc' = "GetObject"
    /\ getResp' = NoResponse
    /\ fs' = [p \in Paths |-> NoFile]
    /\ info' = NoInfo
    /\ cbInfo' = NoInfo
    /\ overwritingFilePath' = ""
    /\ autoRemove' = FALSE
    /\ deferred' = <<>>
    /\ tagging' = NilChars
    /\ tagResp' = <<>>
    /\ aclResp' = <<>>
    /\ UNCHANGED <<store, mode, acl, args, ret, other, calls, putLog, aclLog,
                   result>>

\* an entry point applied up to MaxInvocations times with such a callback; the
\* temporary file the callback returns can always be opened
NextIdentity ==
    \/ GetObject
    \/ GetObjectFails
    \/ CreateTempFails
    \/ CopyFails
    \/ Download
    \/ IdentityCallback
    \/ GetObjectTagging
    \/ GetObjectTaggingFails
    \/ GetObjectAcl
    \/ GetObjectAclFails
    \/ PutObject
    \/ PutObjectFails
    \/ PutObjectAcl
    \/ PutObjectAclFails
    \/ ApplyAgain

SpecIdentity == Init /\ [][NextIdentity]_vars

\* the tag sets and grant lists another client gives the object
ChangedTagSets == {<<>>, << [Key |-> <<"e", "&">>, Value |-> <<" ", "=">>] >>}

\* between two invocations another client replaces the tags and the ACL of the
\* object (PutObjectTagging, PutObjectAcl)
ExternalChange ==
    /\ pc = "returned"
    /\ result = NilError
    /\ calls # <<>> /\ calls[Len(calls)].op # "Change"
    /\ Cardinality({i \in DOMAIN calls : calls[i].op = "GetObject"}) < MaxInvocations
    /\ \E ts \in ChangedTagSets, gs \in AclSamples :
          /\ ts # store.TagSet \/ gs # store.Grants
          /\ store' = [store EXCEPT !.TagSet = ts,
                                    !.TagCount = HonestTagCount(ts),
                                    !.Grants = gs]
    /\ calls' = Append(calls, Call("Change", NilStr))
    /\ UNCHANGED <<before, mode, acl, args, ret, other, pc, getResp, fs, info,
                   cbInfo, overwritingFilePath, autoRemove, deferred, tagging,
                   tagResp, aclResp, putLog, aclLog, result>>

\* mutant: what the call before fetched is kept
CallAgainKeepsFetched ==
    /\ pc = "returned"
    /\ result = NilError
    /\ Cardinality({i \in DOMAIN calls : calls[i].op = "GetObject"}) < MaxInvocations
    /\ before' = store
    /\ pc' = "GetObject"
    /\ getResp' = NoResponse
    /\ fs' = [p \in Paths |-> NoFile]
    /\ info' = NoInfo
    /\ cbInfo' = NoInfo
    /\ overwritingFilePath' = ""
    /\ autoRemove' = FALSE
    /\ deferred' = <<>>
    /\ UNCHANGED <<store, mode, acl, args, ret, other, calls, putLog, aclLog,
                   result, tagging, tagResp, aclResp>>

\* the entry point has returned nil and is called once more with the same
\* arguments, on the object as it is now: every local variable is new
CallAgain ==
    /\ pc = "returned"
    /\ result = NilError
    /\ Cardinality({i \in DOMAIN calls : calls[i].op = "GetObject"}) < MaxInvocations
    /\ before' = store
    /\ pc' = "GetObject"
    /\ getResp' = NoResponse
    /\ fs' = [p \in Paths |-> NoFile]
    /\ info' = NoInfo
    /\ cbInfo' = NoInfo
    /\ overwritingFilePath' = ""
    /\ autoRemove' = FALSE
    /\ deferred' = <<>>
    /\ tagging' = NilChars
    /\ tagResp' = <<>>
    /\ aclResp' = <<>>
    /\ UNCHANGED <<store, mode, acl, args, ret, other, calls, putLog, aclLog,
                   result>>

\* invocations one after the other, the tags and the ACL changing in between
NextSequence ==
    \/ GetObject
    \/ GetObjectFails
    \/ CreateTempFails
    \/ CopyFails
    \/ Download
    \/ IdentityCallback
    \/ GetObjectTagging
    \/ GetObjectTaggingFails
    \/ GetObjectAcl
    \/ GetObjectAclFails
    \/ PutObject
    \/ PutObjectFails
    \/ PutObjectAcl
    \/ PutObjectAclFails
    \/ ExternalChange
    \/ CallAgain

\* the caller cancels ctx while the entry point runs.  The entry points pass
\* ctx to every store call and never look at it themselves: a client that
\* honours it fails the next call with ctx.Err(), one that does not goes on
Cancel ==
    /\ pc \in {"GetObject", "Download", "Callback", "GetObjectTagging",
               "GetObjectAcl", "PutObject", "PutObjectAcl"}
    /\ ~Cancelled
    /\ calls' = Append(calls, Call("Cancel", NilStr))
    /\ UNCHANGED <<store, before, mode, acl, args, ret, other, pc, getResp, fs,
                   info, cbInfo, overwritingFilePath, autoRemove, deferred,
                   tagging, tagResp, aclResp, putLog, aclLog, result>>

\* both entry points on a tagged object without user metadata
InitCancel ==
    \E obj \in StoredObjects :
        /\ obj.Attributes.ContentType # NilStr
        /\ obj.Metadata = NilMap
        /\ obj.TagSet # <<>>
        /\ obj.TagCount = HonestTagCount(obj.TagSet)
        /\ obj.Grants \in AclSamples
        /\ \/ Called(obj, "OverwriteS3Object", "")
           \/ \E a \in CannedAcls : Called(obj, "OverwriteS3ObjectWithAcl", a)

NextCancel ==
    \/ Next
    \/ Cancel

SpecCancel == InitCancel /\ [][NextCancel]_vars

\* the same calls made up to MaxInvocations times, with changes in between
SpecSequence == InitCancel /\ [][NextSequence]_vars

\* mutant: the deferred functions are not run when the callback panics
CallbackPanicsNoDeferred ==
    /\ pc = "Callback"
    /\ \E new \in BOOLEAN :
          fs' = [fs EXCEPT ![OutPath] = IF new THEN NewContent ELSE @]
    /\ calls' = Append(calls, Call("Callback", "panic"))
    /\ deferred' = <<>>
    /\ pc' = "panicked"
    /\ UNCHANGED <<store, before, mode, acl, args, ret, other, getResp, info,
                   cbInfo, overwritingFilePath, autoRemove, tagging, tagResp,
                   aclResp, putLog, aclLog, result>>

\* the callback panics, e.g. on a write to a nil info.Metadata, possibly after
\* it created its own file.  The entry points do not recover: the panic goes
\* up to the caller, running the functions deferred so far on its way
CallbackPanics ==
    /\ pc = "Callback"
    /\ \E new \in BOOLEAN :
          fs' = RunDeferred([fs EXCEPT ![OutPath] = IF new THEN NewContent ELSE @],
                            deferred, overwritingFilePath)
    /\ calls' = Append(calls, Call("Callback", "panic"))
    /\ deferred' = <<>>
    /\ pc' = "panicked"
    /\ UNCHANGED <<store, before, mode, acl, args, ret, other, getResp, info,
                   cbInfo, overwritingFilePath, autoRemove, tagging, tagResp,
                   aclResp, putLog, aclLog, result>>

NextPanic ==
    \/ Next
    \/ CallbackPanics

SpecPanic == Init /\ [][NextPanic]_vars

\* OverwriteS3Object has returned; the store is put back as that call found it
\* and OverwriteS3ObjectWithAcl is called on it.  The locals of the first call
\* are kept aside, the log goes on after an entry for the second call
CallOtherEntryPoint ==
    /\ pc = "returned"
    /\ mode = "OverwriteS3Object"
    /\ other = NoOther
    /\ other' = Locals
    /\ store' = before
    /\ mode' = "OverwriteS3ObjectWithAcl"
    /\ acl' \in CannedAcls
    /\ calls' = Append(calls, Call("OverwriteS3ObjectWithAcl", NilStr))
    /\ pc' = "GetObject"
    /\ getResp' = NoResponse
    /\ fs' = [p \in Paths |-> NoFile]
    /\ info' = NoInfo
    /\ cbInfo' = NoInfo
    /\ overwritingFilePath' = ""
    /\ autoRemove' = FALSE
    /\ deferred' = <<>>
    /\ tagging' = NilChars
    /\ tagResp' = <<>>
    /\ aclResp' = <<>>
    /\ result' = NilError
    /\ UNCHANGED <<before, args, ret, putLog, aclLog>>

\* the callbacks given to the two entry points
ModeCallbacks ==
    {cb \in CallbackBehaviours : ~cb.edit /\ cb.meta \in {"none", "add"}}

ModeCallback == CallbackWith(ModeCallbacks)

\* OverwriteS3Object on an object that has a content type
InitModes ==
    \E obj \in StoredObjects :
        /\ obj.Attributes.ContentType # NilStr
        /\ obj.Grants \in AclSamples
        /\ Called(obj, "OverwriteS3Object", "")

\* the steps of the two calls when no store call fails
NextModes ==
    \/ GetObject
    \/ Download
    \/ ModeCallback
    \/ GetObjectTagging
    \/ GetObjectAcl
    \/ OpenFails
    \/ PutObject
    \/ PutObjectAcl
    \/ CallOtherEntryPoint

SpecModes == InitModes /\ [][NextModes]_vars

\* a callback that writes a file of its own and fails, returning the path of
\* that file together with the error
FailingCallbacks ==
    [ret : {"failed"}, autoRemove : BOOLEAN, meta : {"none"}, edit : {FALSE},
     set : {"none"}]

FailingCallback == CallbackWith(FailingCallbacks)

NextCleanup ==
    \/ Next
    \/ FailingCallback

SpecCleanup == Init /\ [][NextCleanup]_vars

\* a callback that writes a field of the ObjectInfo it is given
InfoCallback == CallbackWith(InfoCallbacks)

\* both entry points on objects that have a content type
InitInfo ==
    \E obj \in StoredObjects :
        /\ obj.Attributes.ContentType # NilStr
        /\ obj.TagCount = HonestTagCount(obj.TagSet)
        /\ obj.Grants \in AclSamples
        /\ \/ Called(obj, "OverwriteS3Object", "")
           \/ \E a \in CannedAcls : Called(obj, "OverwriteS3ObjectWithAcl", a)

NextInfo ==
    \/ GetObject
    \/ GetObjectFails
    \/ CreateTempFails
    \/ CopyFails
    \/ Download
    \/ InfoCallback
    \/ GetObjectTagging
    \/ GetObjectTaggingFails
    \/ GetObjectAcl
    \/ GetObjectAclFails
    \/ PutObject
    \/ PutObjectFails
    \/ PutObjectAcl
    \/ PutObjectAclFails

SpecInfo == InitInfo /\ [][NextInfo]_vars

\* what another writer makes of the object: a new object under the key
\* (PutObject: other content and attributes, no tags, the default ACL), other
\* tags (PutObjectTagging), or another ACL (PutObjectAcl)
Rewritten(obj, kind) ==
    CASE kind = "object" ->
             [exists |-> TRUE, Body |-> "other content",
              Attributes |-> [obj.Attributes EXCEPT !.ContentType = JsonContentType],
              Metadata |-> MakeMap([k \in {"author"} |-> "bob"]),
              TagSet |-> <<>>, TagCount |-> NilCount,
              Grants |-> CannedGrants("private")]
      [] kind = "tags" ->
             [obj EXCEPT !.TagSet = <<[Key |-> <<"e", "&">>, Value |-> <<" ", "=">>]>>,
                         !.TagCount = 1]
      [] kind = "acl" ->
             [obj EXCEPT !.Grants = CannedGrants("public-read")]

\* another writer changes the object once while the invocation runs, after
\* its GetObject and before its PutObject
ConcurrentWrite ==
    /\ pc \in {"Download", "Callback", "GetObjectTagging", "GetObjectAcl",
               "PutObject"}
    /\ \A i \in DOMAIN calls : calls[i].op # "Write"
    /\ \E kind \in {"object", "tags", "acl"} :
          /\ Rewritten(store, kind) # store
          /\ store' = Rewritten(store, kind)
    /\ calls' = Append(calls, Call("Write", NilStr))
    /\ UNCHANGED <<before, mode, acl, args, ret, other, pc, getResp, fs, info,
                   cbInfo, overwritingFilePath, autoRemove, deferred, tagging,
                   tagResp, aclResp, putLog, aclLog, result>>

\* the steps of an invocation when no call fails and the callback returns the
\* file it was given, and the other writer's
NextWriter ==
    \/ GetObject
    \/ Download
    \/ IdentityCallback
    \/ GetObjectTagging
    \/ GetObjectAcl
    \/ PutObject
    \/ PutObjectAcl
    \/ ConcurrentWrite

SpecWriter == InitCancel /\ [][NextWriter]_vars

\* two invocations run against the same key, e.g. in two goroutines: the one
\* that runs is put aside between two of its steps and the other one goes on.
\* They share the client, hence the store and the logs of the requests; each
\* has its own locals and its own files (os.CreateTemp names no file twice)
Switch ==
    /\ other.pc \notin {"absent", "returned"}
    /\ other' = Locals
    /\ pc' = other.pc
    /\ mode' = other.mode
    /\ acl' = other.acl
    /\ getResp' = other.getResp
    /\ fs' = other.fs
    /\ info' = other.info
    /\ cbInfo' = other.cbInfo
    /\ overwritingFilePath' = other.overwritingFilePath
    /\ autoRemove' = other.autoRemove
    /\ deferred' = other.deferred
    /\ tagging' = other.tagging
    /\ tagResp' = other.tagResp
    /\ aclResp' = other.aclResp
    /\ result' = other.result
    /\ UNCHANGED <<store, before, calls, putLog, aclLog, args, ret>>

\* the callbacks of the two invocations: one uploads the file it was given, one
\* uploads a new file and adds a metadata key
ConcurrentCallbacks ==
    {cb \in CallbackBehaviours :
        /\ ~cb.autoRemove /\ ~cb.edit
        /\ \/ cb.ret = "src" /\ cb.meta = "none"
           \/ cb.ret = "new" /\ cb.meta = "add"}

ConcurrentCallback == CallbackWith(ConcurrentCallbacks)

\* OverwriteS3Object is called, and while it runs either entry point is called
\* on the same key
InitConcurrent ==
    \E obj \in StoredObjects :
        /\ obj.Attributes.ContentType # NilStr
        /\ obj.Metadata # NilMap
        /\ Len(obj.TagSet) = 1
        /\ obj.TagCount = HonestTagCount(obj.TagSet)
        /\ obj.Grants \in AclSamples /\ hasWriteGrant(obj.Grants)
        /\ store = obj
        /\ before = obj
        /\ calls = <<>> /\ putLog = <<>> /\ aclLog = <<>>
        /\ args = NoArgs /\ ret = NilStr
        /\ pc = "GetObject"
        /\ mode = "OverwriteS3Object" /\ acl = ""
        /\ getResp = NoResponse
        /\ fs = [p \in Paths |-> NoFile]
        /\ info = NoInfo /\ cbInfo = NoInfo
        /\ overwritingFilePath = "" /\ autoRemove = FALSE
        /\ deferred = <<>>
        /\ tagging = NilChars /\ tagResp = <<>> /\ aclResp = <<>>
        /\ result = NilError
        /\ \/ other = FreshLocals("OverwriteS3Object", "", "GetObject")
           \/ \E a \in CannedAcls :
                  other = FreshLocals("OverwriteS3ObjectWithAcl", a, "GetObject")

\* the steps of the two invocations when no call fails
NextConcurrent ==
    \/ GetObject
    \/ Download
    \/ ConcurrentCallback
    \/ GetObjectTagging
    \/ GetObjectAcl
    \/ PutObject
    \/ PutObjectAcl
    \/ Switch

SpecConcurrent == InitConcurrent /\ [][NextConcurrent]_vars

\* buildGrantString is called on its own, as in TestBuildGrantString, with any
\* list of up to MaxGrantArgs grants and any permission
InitGrantString ==
    /\ Fresh(NoObject, "", "")
    /\ pc = "buildGrantString"
    /\ \E gs \in SeqsUpTo(Grants, MaxGrantArgs), p \in Permissions :
          args = [fn |-> "buildGrantString", grants |-> gs, permission |-> p]
    /\ ret = NilStr

\* result := buildGrantString(grants, tt.permission)
CallBuildGrantString ==
    /\ pc = "buildGrantString"
    /\ ret' = buildGrantString(args.grants, args.permission)
    /\ pc' = "returned"
    /\ UNCHANGED <<store, before, mode, acl, args, other, getResp, fs, info,
                   cbInfo, overwritingFilePath, autoRemove, deferred, tagging,
                   tagResp, aclResp, calls, putLog, aclLog, result>>

SpecGrantString == InitGrantString /\ [][CallBuildGrantString]_vars

\* the keys of the tags buildTaggingString is called with: plain, with '&',
\* '=', a space and '+', non-ASCII, and one that reads like an escape
TagKeys ==
    { <<"e">>, <<"e", "&">>, <<"=">>, <<" ", "+">>, <<"0xC3", "0xA9">>,
      <<"%", "2", "6">> }

\* their values: the same strings, the empty string and nil
TagValues == TagKeys \cup {<<>>, NilChars}

\* buildTaggingString is called on its own, as in TestBuildTaggingString, with
\* any list of up to MaxTagArgs tags
InitTaggingString ==
    /\ Fresh(NoObject, "", "")
    /\ pc = "buildTaggingString"
    /\ \E ts \in SeqsUpTo([Key : TagKeys, Value : TagValues], MaxTagArgs) :
          args = [fn |-> "buildTaggingString", tags |-> ts]
    /\ ret = NilChars

\* result := buildTaggingString(tt.tags)
CallBuildTaggingString ==
    /\ pc = "buildTaggingString"
    /\ ret' = buildTaggingString(args.tags)
    /\ pc' = "returned"
    /\ UNCHANGED <<store, before, mode, acl, args, other, getResp, fs, info,
                   cbInfo, overwritingFilePath, autoRemove, deferred, tagging,
                   tagResp, aclResp, calls, putLog, aclLog, result>>

SpecTaggingString == InitTaggingString /\ [][CallBuildTaggingString]_vars

-----------------------------------------------------------------------------
(* Reading the call log *)

Issued(op) == \E i \in DOMAIN calls : calls[i].op = op

Succeeded(op) == \E i \in DOMAIN calls : calls[i].op = op /\ calls[i].err = NilStr

Failed(op) == \E i \in DOMAIN calls : calls[i].op = op /\ calls[i].err # NilStr

Count(op) == Cardinality({i \in DOMAIN calls : calls[i].op = op})

StoreOps == {"GetObject", "GetObjectTagging", "GetObjectAcl", "PutObject", "PutObjectAcl"}

\* the store calls made, in order
StoreCalls == SelectSeq(calls, LAMBDA c : c.op \in StoreOps)

Returned == pc = "returned"

-----------------------------------------------------------------------------
(* C1 *)

\* C1: in OverwriteS3Object a PutObjectAcl call is issued if and only if
\* PutObject succeeded and the grants GetObjectAcl returned hold a WRITE grant;
\* it comes after the successful PutObject, and at most once.
C1_RestoreIffWriteGrant ==
    mode = "OverwriteS3Object" =>
        /\ Count("PutObjectAcl") <= 1
        /\ Len(aclLog) = Count("PutObjectAcl")
        /\ Returned =>
              (Issued("PutObjectAcl") <=>
                  /\ Succeeded("PutObject")
                  /\ \E i \in DOMAIN aclResp : aclResp[i].Permission = "WRITE")
        /\ \A i \in DOMAIN calls :
              calls[i].op = "PutObjectAcl" =>
                  \E j \in 1..(i - 1) : calls[j] = Call("PutObject", NilStr)

\* a WRITE grant that is not the first of the list was restored
C1_Witness ==
    /\ Returned /\ mode = "OverwriteS3Object"
    /\ Issued("PutObjectAcl")
    /\ Len(aclResp) = 2 /\ aclResp[1].Permission = "READ"
    /\ aclResp[2].Permission = "WRITE"

-----------------------------------------------------------------------------
(* C2 *)

\* the value of a grant field that carries the string s: unset when s is empty
FieldFor(s) == IF s = "" THEN NilStr ELSE s

\* C2: in OverwriteS3Object the PutObject request has no WRITE grant field; its
\* READ, READ_ACP, WRITE_ACP and FULL_CONTROL fields are the strings serialized
\* from the grants GetObjectAcl returned, and the PutObjectAcl request carries
\* those four and the WRITE string serialized from the same grants.
C2_GrantFieldsFromFetchedGrants ==
    mode = "OverwriteS3Object" =>
        /\ \A i \in DOMAIN putLog :
              /\ "GrantWrite" \notin DOMAIN putLog[i]
              /\ putLog[i].ACL = ""
              /\ putLog[i].GrantRead = FieldFor(buildGrantString(aclResp, "READ"))
              /\ putLog[i].GrantReadACP = FieldFor(buildGrantString(aclResp, "READ_ACP"))
              /\ putLog[i].GrantWriteACP = FieldFor(buildGrantString(aclResp, "WRITE_ACP"))
              /\ putLog[i].GrantFullControl =
                     FieldFor(buildGrantString(aclResp, "FULL_CONTROL"))
        /\ \A i \in DOMAIN aclLog :
              /\ aclLog[i].GrantRead = putLog[1].GrantRead
              /\ aclLog[i].GrantReadACP = putLog[1].GrantReadACP
              /\ aclLog[i].GrantWriteACP = putLog[1].GrantWriteACP
              /\ aclLog[i].GrantFullControl = putLog[1].GrantFullControl
              /\ aclLog[i].GrantWrite = FieldFor(buildGrantString(aclResp, "WRITE"))

\* both requests were sent for an object with a READ_ACP grant and a WRITE grant
C2_Witness ==
    /\ mode = "OverwriteS3Object"
    /\ Len(putLog) = 1 /\ Len(aclLog) = 1
    /\ putLog[1].GrantReadACP = "uri=\"http://g/AllUsers\""
    /\ putLog[1].GrantRead = NilStr
    /\ aclLog[1].GrantWrite = "emailaddress=\"t@x\""
    /\ aclLog[1].GrantReadACP = "uri=\"http://g/AllUsers\""

-----------------------------------------------------------------------------
(* C3 *)

GrantSet(grants) == Range(grants)

\* C3: with a store whose PutObject sets the ACL to the request's grants and
\* whose PutObjectAcl replaces it, the object's set of (permission, grantee)
\* grants after OverwriteS3Object returns nil is the set it had before the call.
C3_GrantSetPreserved ==
    (Returned /\ mode = "OverwriteS3Object" /\ result = NilError) =>
        GrantSet(store.Grants) = GrantSet(before.Grants)

\* the object was rewritten and still has READ for AllUsers and WRITE for another grantee
C3_Witness ==
    /\ Returned /\ mode = "OverwriteS3Object" /\ result = NilError
    /\ Succeeded("PutObject") /\ Succeeded("PutObjectAcl")
    /\ store.Body = NewContent
    /\ before.Grants = << [Permission |-> "READ", Grantee |-> AllUsers],
                          [Permission |-> "WRITE", Grantee |-> Grantee(NilStr, NilStr, "t@x")] >>
    /\ [Permission |-> "READ", Grantee |-> AllUsers] \in GrantSet(store.Grants)
    /\ [Permission |-> "WRITE", Grantee |-> Grantee(NilStr, NilStr, "t@x")]
           \in GrantSet(store.Grants)

-----------------------------------------------------------------------------
(* C4 *)

\* the callback returned an empty path and no error
CallbackSkipped ==
    /\ calls # <<>>
    /\ calls[Len(calls)] = Call("Callback", NilStr)
    /\ overwritingFilePath = ""

\* C4: for both entry points, when the callback returns an empty path and no
\* error, whatever autoRemove is, the call returns nil, GetObject is the only
\* store call made, and the stored object is unchanged.
C4_SkipIsNoOp ==
    (Succeeded("Callback") /\ overwritingFilePath = "") =>
        /\ Returned
        /\ result = NilError
        /\ StoreCalls = <<Call("GetObject", NilStr)>>
        /\ putLog = <<>> /\ aclLog = <<>>
        /\ store = before

\* a skip with autoRemove set, on a tagged object with a WRITE grant
C4_Witness ==
    /\ Returned /\ CallbackSkipped /\ autoRemove
    /\ mode = "OverwriteS3Object"
    /\ before.TagCount > 0
    /\ hasWriteGrant(before.Grants)

-----------------------------------------------------------------------------
(* C5 *)

\* C5: in both modes every PutObject request carries the content type,
\* cache-control, content-disposition, content-encoding, content-language,
\* website-redirect-location and storage class GetObject returned.
C5_AttributesCarried ==
    \A i \in DOMAIN putLog :
        \A a \in AttributeNames : putLog[i][a] = getResp.Attributes[a]

\* a PutObject of OverwriteS3ObjectWithAcl for an object with every attribute set
C5_Witness ==
    /\ Len(putLog) = 1
    /\ mode = "OverwriteS3ObjectWithAcl"
    /\ putLog[1].CacheControl = "max-age=3600"
    /\ putLog[1].StorageClass = "STANDARD_IA"
    /\ before.Attributes.CacheControl = "max-age=3600"

-----------------------------------------------------------------------------
(* C6 *)

\* the entries of a metadata map; a nil map has none
Entries(m) == IF m.isNil THEN <<>> ELSE m.kv

\* C6: for every fetched object, with or without user metadata, the metadata
\* of the PutObject request is the mapping as the callback left it.
C6_MetadataAsCallbackLeftIt ==
    \A i \in DOMAIN putLog :
        Entries(putLog[i].Metadata) = Entries(cbInfo.Metadata)

-----------------------------------------------------------------------------
(* C7 *)

-----------------------------------------------------------------------------
(* C8 *)

\* C8: OverwriteS3ObjectWithAcl never issues GetObjectAcl or PutObjectAcl, and
\* its PutObject request carries the caller's canned ACL and no grant field.
C8_CannedAclOnly ==
    mode = "OverwriteS3ObjectWithAcl" =>
        /\ ~Issued("GetObjectAcl")
        /\ ~Issued("PutObjectAcl")
        /\ aclLog = <<>>
        /\ \A i \in DOMAIN putLog :
              /\ putLog[i].ACL = acl
              /\ putLog[i].GrantRead = NilStr
              /\ putLog[i].GrantReadACP = NilStr
              /\ putLog[i].GrantWriteACP = NilStr
              /\ putLog[i].GrantFullControl = NilStr

\* OverwriteS3ObjectWithAcl wrote an object that had a WRITE grant
C8_Witness ==
    /\ Returned /\ mode = "OverwriteS3ObjectWithAcl"
    /\ Succeeded("PutObject")
    /\ putLog[1].ACL = "public-read"
    /\ hasWriteGrant(before.Grants)

-----------------------------------------------------------------------------
(* C9 *)

\* C9: for both entry points, on every exit path after the temporary file is
\* created, the temporary file does not exist when the call returns.
C9_TempFileRemoved ==
    (Returned /\ Succeeded("CreateTemp")) => fs[TmpPath] = NoFile

\* the call returned after PutObjectAcl failed, the callback having returned srcFilePath
C9_Witness ==
    /\ Returned /\ Succeeded("CreateTemp")
    /\ Failed("PutObjectAcl")
    /\ overwritingFilePath = TmpPath

-----------------------------------------------------------------------------
(* C10 *)

\* C10: if GetObject fails, also for a key that does not exist, the call
\* returns an error wrapping that failure, the callback is not invoked, no
\* temporary file is created and no other store call is issued.
C10_GetObjectFailure ==
    Failed("GetObject") =>
        /\ Returned
        /\ result.msg = "failed to get object"
        /\ result.cause = calls[1].err
        /\ result.cause # NilStr
        /\ Len(calls) = 1
        /\ \A p \in Paths : fs[p] = NoFile
        /\ putLog = <<>> /\ aclLog = <<>>
        /\ store = before

\* GetObject failed because the key does not exist
C10_Witness ==
    /\ Returned
    /\ ~before.exists
    /\ calls = <<Call("GetObject", NoSuchKey)>>

-----------------------------------------------------------------------------
(* C11 *)

\* the last call of the log
LastCall == calls[Len(calls)]

\* C11: if the callback returns an error, the call returns an error that wraps
\* it as a callback error, and no GetObjectTagging, GetObjectAcl, PutObject or
\* PutObjectAcl call is issued.
C11_CallbackFailure ==
    Failed("Callback") =>
        /\ Returned
        /\ LastCall.op = "Callback"
        /\ result.msg = "callback error"
        /\ result.cause = LastCall.err
        /\ \A op \in {"GetObjectTagging", "GetObjectAcl", "PutObject", "PutObjectAcl"} :
              ~Issued(op)
        /\ putLog = <<>> /\ aclLog = <<>>
        /\ store = before

\* the callback of OverwriteS3Object failed for an object that has tags
C11_Witness ==
    /\ Returned /\ mode = "OverwriteS3Object"
    /\ Failed("Callback")
    /\ getResp.TagCount # NilCount /\ getResp.TagCount > 0
    /\ result = Errorf("callback error", CallbackFailure)

-----------------------------------------------------------------------------
(* C12 *)

\* C12: if GetObjectTagging fails, or in OverwriteS3Object GetObjectAcl fails,
\* the call returns an error naming that fetch and issues no later store call:
\* no PutObject, no PutObjectAcl, and after a failed tag fetch no GetObjectAcl.
C12_FetchFailure ==
    /\ Failed("GetObjectTagging") =>
          /\ Returned
          /\ LastCall.op = "GetObjectTagging"
          /\ result.msg = "failed to get object tagging"
          /\ result.cause = LastCall.err
          /\ \A op \in {"GetObjectAcl", "PutObject", "PutObjectAcl"} : ~Issued(op)
          /\ putLog = <<>> /\ aclLog = <<>>
    /\ Failed("GetObjectAcl") =>
          /\ mode = "OverwriteS3Object"
          /\ Returned
          /\ LastCall.op = "GetObjectAcl"
          /\ result.msg = "failed to get object ACL"
          /\ result.cause = LastCall.err
          /\ \A op \in {"PutObject", "PutObjectAcl"} : ~Issued(op)
          /\ putLog = <<>> /\ aclLog = <<>>

\* the ACL fetch failed after the tags had been fetched
C12_Witness ==
    /\ Returned
    /\ Succeeded("GetObjectTagging")
    /\ Failed("GetObjectAcl")
    /\ result = Errorf("failed to get object ACL", RequestError)

-----------------------------------------------------------------------------
(* C13 *)

\* C13: if PutObject fails, the call returns an error identifying the write and
\* no PutObjectAcl call is issued, also when the fetched grants hold a WRITE grant.
C13_PutObjectFailure ==
    Failed("PutObject") =>
        /\ Returned
        /\ LastCall.op = "PutObject"
        /\ result.msg = "failed to put object"
        /\ result.cause = LastCall.err
        /\ ~Issued("PutObjectAcl")
        /\ aclLog = <<>>

\* PutObject failed in OverwriteS3Object with a WRITE grant among the fetched grants
C13_Witness ==
    /\ Returned /\ mode = "OverwriteS3Object"
    /\ Failed("PutObject")
    /\ hasWriteGrant(aclResp)
    /\ result = Errorf("failed to put object", RequestError)

-----------------------------------------------------------------------------
(* C14 *)

\* C14: if PutObjectAcl fails after a successful PutObject, the call returns a
\* non-nil error that no return before a successful PutObject produces, and no
\* further store call is made: the object keeps the new content and the grants
\* of the PutObject request, which are the original grants without WRITE.
C14_RestoreFailure ==
    /\ Failed("PutObjectAcl") =>
          /\ Returned
          /\ LastCall.op = "PutObjectAcl"
          /\ result.msg = "failed to put object ACL"
          /\ result.cause = LastCall.err /\ result.cause # NilStr
          /\ Count("PutObject") = 1 /\ Succeeded("PutObject")
          /\ Count("PutObjectAcl") = 1
          /\ store.Body = putLog[1].Body
          /\ store.Grants = RequestGrants(putLog[1])
          /\ GrantSet(store.Grants) =
                 {g \in GrantSet(before.Grants) : g.Permission # "WRITE"}
    /\ (Returned /\ result # NilError /\ ~Succeeded("PutObject")) =>
          result.msg # "failed to put object ACL"

\* the restore failed for an object with a READ and a WRITE grant whose content
\* the callback had replaced
C14_Witness ==
    /\ Returned
    /\ Failed("PutObjectAcl")
    /\ before.Body = OldContent /\ store.Body = NewContent
    /\ Len(before.Grants) = 2
    /\ before.Grants[1].Permission = "WRITE"
    /\ before.Grants[2].Permission = "READ"
    /\ Len(store.Grants) = 1

-----------------------------------------------------------------------------
(* C15 *)

Kinds == {"FetchError", "CallbackError", "WriteError", "PermissionRestoreError"}

\* the kind an error message of the entry points stands for
KindOf(msg) ==
    CASE msg \in {"failed to get object", "failed to create temp file",
                  "failed to copy object content", "failed to seek temp file",
                  "failed to get object tagging", "failed to get object ACL"}
             -> "FetchError"
      [] msg = "callback error" -> "CallbackError"
      [] msg \in {"failed to open overwriting file", "failed to put object"}
             -> "WriteError"
      [] msg = "failed to put object ACL" -> "PermissionRestoreError"
      [] OTHER -> "unknown"

\* the phase in which a call that returned an error failed, read from the log:
\* the step that failed is the last one logged, or the local step that follows it
FailedPhase ==
    IF LastCall.err # NilStr
    THEN CASE LastCall.op \in {"GetObject", "CreateTemp"} -> "Fetching"
           [] LastCall.op = "Callback" -> "Deciding"
           [] LastCall.op \in {"GetObjectTagging", "GetObjectAcl"} -> "AttributeGathering"
           [] LastCall.op = "PutObject" -> "Writing"
           [] LastCall.op = "PutObjectAcl" -> "RestoringWriteGrant"
    ELSE IF LastCall.op = "CreateTemp" THEN "Fetching" ELSE "Writing"

KindOfPhase(phase) ==
    CASE phase \in {"Fetching", "AttributeGathering"} -> "FetchError"
      [] phase = "Deciding" -> "CallbackError"
      [] phase = "Writing" -> "WriteError"
      [] phase = "RestoringWriteGrant" -> "PermissionRestoreError"

\* C15: every non-nil error either entry point returns is of exactly one of the
\* kinds FetchError, CallbackError, WriteError, PermissionRestoreError, the one
\* of the phase that failed, and the kind tells whether PutObject had succeeded.
C15_ErrorKinds ==
    (Returned /\ result # NilError) =>
        /\ KindOf(result.msg) \in Kinds
        /\ KindOf(result.msg) = KindOfPhase(FailedPhase)
        /\ Succeeded("PutObject") <=> KindOf(result.msg) = "PermissionRestoreError"

\* OverwriteS3Object could not open the file the callback named
C15_Witness ==
    /\ Returned /\ mode = "OverwriteS3Object"
    /\ result.msg = "failed to open overwriting file"
    /\ Succeeded("GetObjectAcl")
    /\ KindOf(result.msg) = "WriteError"

-----------------------------------------------------------------------------
(* C16 *)

\* C16: when the callback returns a non-empty path, the one PutObject request of
\* the invocation has as its body the content the file at that path has when
\* PutObject is issued, and after a successful call the stored content is that body.
C16_BodyIsReturnedFile ==
    [][ /\ Len(putLog') > Len(putLog) =>
              /\ putLog = <<>> /\ Len(putLog') = 1
              /\ overwritingFilePath # ""
              /\ FileAt(fs, overwritingFilePath) # NoFile
              /\ putLog'[1].Body = FileAt(fs, overwritingFilePath)
              /\ calls'[Len(calls')].op = "PutObject"
              /\ calls'[Len(calls')].err = NilStr =>
                     store'.Body = FileAt(fs, overwritingFilePath)
        /\ (pc' = "returned" /\ result' = NilError /\ putLog' # <<>>) =>
              store'.Body = putLog'[1].Body ]_vars

\* the callback wrote a new file and left the temporary file as it was; the
\* stored content is that of the new file
C16_Witness ==
    /\ Returned /\ result = NilError
    /\ overwritingFilePath = OutPath
    /\ before.Body = OldContent
    /\ Len(putLog) = 1 /\ putLog[1].Body = NewContent
    /\ store.Body = NewContent

-----------------------------------------------------------------------------
(* C17 *)

\* C17: the callback is invoked exactly once in every invocation in which
\* GetObject and the local copy succeed; its info has the Bucket and Key of the
\* arguments and the fetched content type, and the file at srcFilePath holds
\* exactly the bytes of the fetched object.
C17_CallbackInvokedOnce ==
    /\ Count("Callback") <= 1
    /\ pc = "Callback" =>
          /\ ~Issued("Callback")
          /\ info.Bucket = Bucket /\ info.Key = Key
          /\ info.ContentType = getResp.Attributes.ContentType
          /\ getResp.Attributes.ContentType = before.Attributes.ContentType
          /\ fs[TmpPath] = getResp.Body
          /\ getResp.Body = before.Body
    /\ Issued("Callback") =>
          /\ Succeeded("GetObject") /\ Succeeded("CreateTemp")
          /\ cbInfo.Bucket = Bucket /\ cbInfo.Key = Key
          /\ cbInfo.ContentType = before.Attributes.ContentType
    /\ ( /\ Returned
         /\ Succeeded("GetObject") /\ Succeeded("CreateTemp")
         /\ result.msg \notin {"failed to copy object content",
                                "failed to seek temp file"} ) =>
          Count("Callback") = 1

\* the callback was called once on the copy of an object with a content type
\* and returned srcFilePath untouched: the bytes uploaded are the fetched ones
C17_Witness ==
    /\ Returned /\ result = NilError
    /\ Count("Callback") = 1
    /\ cbInfo.Bucket = Bucket /\ cbInfo.Key = Key
    /\ cbInfo.ContentType = "text/plain"
    /\ overwritingFilePath = TmpPath
    /\ before.Body = OldContent
    /\ Len(putLog) = 1 /\ putLog[1].Body = OldContent

-----------------------------------------------------------------------------
(* C18 *)

\* the callback returned without error a path that is not srcFilePath
ReturnedOwnFile ==
    Succeeded("Callback") /\ overwritingFilePath \notin {"", TmpPath}

\* C18: for both entry points, when the callback returns a non-empty path other
\* than srcFilePath: with autoRemove true the file at that path exists while
\* PutObject executes and does not exist when the call has returned; with
\* autoRemove false the entry point never removes it.
C18_AutoRemove ==
    ReturnedOwnFile =>
        /\ \A i \in DOMAIN putLog : putLog[i].Body # NoFile
        /\ (~Returned /\ overwritingFilePath = OutPath) => fs[OutPath] = NewContent
        /\ (Returned /\ autoRemove) => fs[overwritingFilePath] = NoFile
        /\ (~autoRemove /\ overwritingFilePath = OutPath) => fs[OutPath] = NewContent

\* a file written by the callback with autoRemove true was uploaded and is gone
C18_Witness ==
    /\ Returned /\ result = NilError
    /\ ReturnedOwnFile /\ autoRemove
    /\ overwritingFilePath = OutPath
    /\ Len(putLog) = 1 /\ putLog[1].Body = NewContent
    /\ fs[OutPath] = NoFile

-----------------------------------------------------------------------------
(* C19 *)

\* C19: when the callback returns srcFilePath itself, whatever autoRemove is,
\* the temporary file exists while PutObject executes; no removal is deferred
\* for the returned path, and the file is removed when the call returns.
C19_SrcFilePathReturned ==
    (Succeeded("Callback") /\ overwritingFilePath = TmpPath) =>
        /\ "removeOverwritingFile" \notin Range(deferred)
        /\ \A i \in DOMAIN putLog : putLog[i].Body # NoFile
        /\ ~Returned => fs[TmpPath] # NoFile /\ "removeTmpFile" \in Range(deferred)
        /\ Returned => fs[TmpPath] = NoFile

\* srcFilePath was returned with autoRemove true, uploaded, and removed at the return
C19_Witness ==
    /\ Returned /\ result = NilError
    /\ overwritingFilePath = TmpPath /\ autoRemove
    /\ Len(putLog) = 1 /\ putLog[1].Body = NewContent
    /\ fs[TmpPath] = NoFile

-----------------------------------------------------------------------------
(* C20 *)

\* the one form a grantee is rendered in, by the identifier it has
Rendering(g) ==
    CASE g.ID # NilStr /\ g.URI = NilStr /\ g.EmailAddress = NilStr
             -> "id=\"" \o g.ID \o "\""
      [] g.ID = NilStr /\ g.URI # NilStr /\ g.EmailAddress = NilStr
             -> "uri=\"" \o g.URI \o "\""
      [] g.ID = NilStr /\ g.URI = NilStr /\ g.EmailAddress # NilStr
             -> "emailaddress=\"" \o g.EmailAddress \o "\""

\* the strings of a list with a comma between neighbours
RECURSIVE CommaJoined(_)
CommaJoined(strs) ==
    IF strs = <<>> THEN ""
    ELSE IF Len(strs) = 1 THEN strs[1]
    ELSE CommaJoined(SubSeq(strs, 1, Len(strs) - 1)) \o "," \o strs[Len(strs)]

\* C20: for every list of grants and every permission, buildGrantString returns
\* the renderings of exactly the grants with that permission, in input order
\* and joined by commas, each in the one form of its populated identifier; it
\* returns the empty string when no grant matches.
C20_GrantString ==
    (args.fn = "buildGrantString" /\ pc = "returned") =>
        LET matching == SelectSeq(args.grants,
                                  LAMBDA g : g.Permission = args.permission)
        IN  /\ ret = CommaJoined([i \in DOMAIN matching |->
                                     Rendering(matching[i].Grantee)])
            /\ matching = <<>> => ret = ""

\* TestBuildGrantString: READ of a canonical user, READ of a group and WRITE of
\* an e-mail address, serialized for READ
C20_Witness ==
    /\ pc = "returned"
    /\ args.fn = "buildGrantString" /\ args.permission = "READ"
    /\ args.grants =
          << [Permission |-> "READ", Grantee |-> Grantee("a1", NilStr, NilStr)],
             [Permission |-> "READ", Grantee |-> AllUsers],
             [Permission |-> "WRITE", Grantee |-> Grantee(NilStr, NilStr, "t@x")] >>
    /\ ret = "id=\"a1\",uri=\"http://g/AllUsers\""

-----------------------------------------------------------------------------
(* C21 *)

\* the strings of a list with '&' between neighbours
RECURSIVE AmpersandJoined(_)
AmpersandJoined(strs) ==
    IF strs = <<>> THEN <<>>
    ELSE IF Len(strs) = 1 THEN strs[1]
    ELSE AmpersandJoined(SubSeq(strs, 1, Len(strs) - 1)) \o <<"&">>
             \o strs[Len(strs)]

\* C21: for every list of tags, buildTaggingString returns the percent-encoded
\* key=value pairs joined by '&' in input order, the empty string for the empty
\* list, and decoding the result as a query string gives back the keys and
\* values in order, also when they hold '&', '=', spaces or non-ASCII bytes.
C21_TaggingString ==
    (args.fn = "buildTaggingString" /\ pc = "returned") =>
        LET keyOf(i) == awsToString(args.tags[i].Key)
            valueOf(i) == awsToString(args.tags[i].Value)
        IN  /\ ret = AmpersandJoined([i \in DOMAIN args.tags |->
                         QueryEscape(keyOf(i)) \o <<"=">> \o QueryEscape(valueOf(i))])
            /\ args.tags = <<>> => ret = <<>>
            /\ ParseTagging(ret) =
                  [i \in DOMAIN args.tags |-> [Key |-> keyOf(i), Value |-> valueOf(i)]]

\* two tags whose keys and values hold '&', '=', a space, '+' and non-ASCII bytes
C21_Witness ==
    /\ pc = "returned"
    /\ args.fn = "buildTaggingString"
    /\ args.tags = << [Key |-> <<"e", "&">>, Value |-> <<" ", "+">>],
                      [Key |-> <<"=">>, Value |-> <<"0xC3", "0xA9">>] >>
    /\ ret = << "e", "%", "2", "6", "=", "+", "%", "2", "B", "&",
                "%", "3", "D", "=", "%", "C", "3", "%", "A", "9" >>

-----------------------------------------------------------------------------
(* C22 *)

\* the entry point has returned nil after writing the file at srcFilePath
IdentityApplied ==
    /\ Returned /\ result = NilError
    /\ overwritingFilePath = TmpPath
    /\ LastCall.op \in {"PutObject", "PutObjectAcl"}

-----------------------------------------------------------------------------
(* C23 *)

\* C23: once ctx is cancelled, no further store call of the invocation goes
\* through, none is made twice, and the entry point returns an error.
C23_NothingAfterCancel ==
    Cancelled =>
        LET c == CHOOSE i \in DOMAIN calls : calls[i].op = "Cancel"
            later == {i \in DOMAIN calls : i > c /\ calls[i].op \in StoreOps}
        IN  /\ \A i \in later : calls[i].err # NilStr
            /\ \A i, j \in later : calls[i].op = calls[j].op => i = j
            /\ Returned => result # NilError

-----------------------------------------------------------------------------
(* C24 *)

\* the place of each step in the fixed order
StepRank ==
    [op \in StoreOps \cup {"Callback"} |->
        CASE op = "GetObject" -> 1
          [] op = "Callback" -> 2
          [] op = "GetObjectTagging" -> 3
          [] op = "GetObjectAcl" -> 4
          [] op = "PutObject" -> 5
          [] op = "PutObjectAcl" -> 6]

\* the steps taken so far, in order
Steps == SelectSeq(calls, LAMBDA c : c.op \in DOMAIN StepRank)

\* C24: the steps of an invocation are taken in the order GetObject, callback,
\* GetObjectTagging, GetObjectAcl, PutObject, PutObjectAcl, each at most once
\* and each only after the step before it has succeeded; GetObject and the
\* callback come first, GetObjectAcl is made in OverwriteS3Object only and then
\* before every PutObject, and no step follows a failed one.
C24_FixedOrder ==
    /\ \A i, j \in DOMAIN Steps :
          i < j => StepRank[Steps[i].op] < StepRank[Steps[j].op]
    /\ \A i \in DOMAIN Steps : i < Len(Steps) => Steps[i].err = NilStr
    /\ Len(Steps) >= 1 => Steps[1].op = "GetObject"
    /\ Len(Steps) >= 2 => Steps[2].op = "Callback"
    /\ mode = "OverwriteS3ObjectWithAcl" => ~Issued("GetObjectAcl")
    /\ (mode = "OverwriteS3Object" /\ Issued("PutObject")) =>
          Succeeded("GetObjectAcl")
    /\ Issued("PutObjectAcl") => Succeeded("PutObject")
    /\ (Returned /\ Steps # <<>> /\ Steps[Len(Steps)].err # NilStr) =>
          result # NilError

\* an invocation that took all six steps
C24_Witness ==
    /\ Returned /\ result = NilError
    /\ [i \in DOMAIN Steps |-> Steps[i].op] =
          <<"GetObject", "Callback", "GetObjectTagging", "GetObjectAcl",
            "PutObject", "PutObjectAcl">>

-----------------------------------------------------------------------------
(* C25 *)

\* both invocations are over
BothReturned == pc = "returned" /\ other.pc = "returned"

\* C25: two interleaved invocations on one key are not coordinated.  When no
\* store call fails both return nil, each having made its PutObject; at every
\* moment the stored content, attributes, metadata and tags are those of the
\* PutObject applied last, whatever the other invocation wrote before.
C25_LastPutObjectWins ==
    /\ BothReturned =>
          /\ result = NilError /\ other.result = NilError
          /\ Len(putLog) = 2
    /\ putLog # <<>> =>
          LET last == StorePutObject(putLog[Len(putLog)])
          IN  /\ store.Body = last.Body
              /\ store.Attributes = last.Attributes
              /\ store.Metadata = last.Metadata
              /\ store.TagSet = last.TagSet
              /\ store.TagCount = last.TagCount

\* both returned nil; the first PutObject carried the new content and the added
\* metadata key, the second the content and metadata fetched before it, and the
\* store holds the old content and metadata again: the first update is lost
C25_Witness ==
    /\ BothReturned
    /\ result = NilError /\ other.result = NilError
    /\ Len(putLog) = 2
    /\ putLog[1].Body = NewContent
    /\ putLog[1].Metadata # before.Metadata
    /\ putLog[2].Body = OldContent
    /\ store.Body = OldContent
    /\ store.Metadata = before.Metadata

-----------------------------------------------------------------------------
(* C26 *)

\* the GetObject response reported tags
TagCountPositive == getResp.TagCount # NilCount /\ getResp.TagCount > 0

\* C26: GetObjectTagging is issued, once, exactly when the callback returned a
\* path other than "" without error and GetObject reported a tag count that is
\* present and greater than zero; with an absent or zero count no tag fetch is
\* made and every PutObject request has no Tagging.
C26_TagFetchIffCounted ==
    /\ Count("GetObjectTagging") <= 1
    /\ Issued("GetObjectTagging") => Succeeded("Callback")
    /\ pc \in {"GetObjectAcl", "PutObject", "PutObjectAcl", "returned"} =>
          (Issued("GetObjectTagging") <=>
              /\ Succeeded("Callback")
              /\ overwritingFilePath # ""
              /\ TagCountPositive)
    /\ ~TagCountPositive =>
          /\ ~Issued("GetObjectTagging")
          /\ \A i \in DOMAIN putLog : putLog[i].Tagging = NilChars

\* the object has a tag but GetObject reported a count of zero: the write was
\* made without a tag fetch and without Tagging
C26_Witness ==
    /\ Returned /\ result = NilError
    /\ before.TagSet # <<>> /\ getResp.TagCount = 0
    /\ Succeeded("PutObject") /\ ~Issued("GetObjectTagging")
    /\ putLog[1].Tagging = NilChars

-----------------------------------------------------------------------------
(* C27 *)

\* the grant fields of a PutObjectInput, and the permission each one carries
PutGrantFields ==
    [GrantRead |-> "READ", GrantReadACP |-> "READ_ACP",
     GrantWriteACP |-> "WRITE_ACP", GrantFullControl |-> "FULL_CONTROL"]

\* those of a PutObjectAclInput
AclGrantFields == [f \in DOMAIN PutGrantFields \cup {"GrantWrite"} |->
                      IF f = "GrantWrite" THEN "WRITE" ELSE PutGrantFields[f]]

\* the field is unset, or set to a string that is not empty; it is unset
\* exactly when no fetched grant has its permission
AbsentOrNonEmpty(req, f, permission) ==
    /\ req[f] # ""
    /\ req[f] = NilStr <=>
          ~\E i \in DOMAIN aclResp : aclResp[i].Permission = permission

\* C27: every grant field of every PutObject request (READ, READ_ACP,
\* WRITE_ACP, FULL_CONTROL) and of every PutObjectAcl request (these and WRITE)
\* is either unset or a non-empty string; a permission that no grant of the
\* object has is left unset.
C27_GrantFieldsNeverEmpty ==
    /\ \A i \in DOMAIN putLog : \A f \in DOMAIN PutGrantFields :
          AbsentOrNonEmpty(putLog[i], f, PutGrantFields[f])
    /\ \A i \in DOMAIN aclLog : \A f \in DOMAIN AclGrantFields :
          AbsentOrNonEmpty(aclLog[i], f, AclGrantFields[f])

\* an object with a READ and a WRITE grant: both requests were sent, with
\* GrantRead set and the permissions without a grant unset
C27_Witness ==
    /\ Returned /\ Len(putLog) = 1 /\ Len(aclLog) = 1
    /\ putLog[1].GrantRead # NilStr /\ putLog[1].GrantReadACP = NilStr
    /\ putLog[1].GrantWriteACP = NilStr /\ putLog[1].GrantFullControl = NilStr
    /\ aclLog[1].GrantWrite # NilStr /\ aclLog[1].GrantRead # NilStr
    /\ aclLog[1].GrantFullControl = NilStr

-----------------------------------------------------------------------------
(* C28 *)

\* C28: whatever the callback wrote to the ObjectInfo it was given (the
\* metadata map apart), every PutObject request goes to the bucket and key of
\* the call and carries the content type and the other descriptive attributes
\* GetObject fetched, i.e. those of the stored object.
C28_AttributesAsFetched ==
    \A i \in DOMAIN putLog :
        /\ putLog[i].Bucket = Bucket /\ putLog[i].Key = Key
        /\ \A a \in AttributeNames : putLog[i][a] = before.Attributes[a]

-----------------------------------------------------------------------------
(* C29 *)

Panicked == pc = "panicked"

\* C29: when the callback panics the temporary file, which existed while the
\* callback ran, is removed, the callback is the last call made, no PutObject
\* and no PutObjectAcl is issued, and the stored object is as it was.
C29_PanicCleansUp ==
    /\ pc = "Callback" => fs[TmpPath] # NoFile
    /\ Panicked =>
          /\ Succeeded("CreateTemp")
          /\ fs[TmpPath] = NoFile
          /\ LastCall = Call("Callback", "panic")
          /\ ~Issued("PutObject") /\ ~Issued("PutObjectAcl")
          /\ putLog = <<>> /\ aclLog = <<>>
          /\ store = before
          /\ result = NilError

\* the callback panicked after it had written its own file: the temporary
\* file is gone, the callback's file is still there
C29_Witness ==
    /\ Panicked
    /\ fs[TmpPath] = NoFile /\ fs[OutPath] = NewContent
    /\ Count("Callback") = 1 /\ StoreCalls = <<Call("GetObject", NilStr)>>

-----------------------------------------------------------------------------
(* C30 *)

\* where the log of the second call starts
SecondCall ==
    CHOOSE i \in DOMAIN calls : calls[i].op = "OverwriteS3ObjectWithAcl"

\* the calls of OverwriteS3Object, and those of OverwriteS3ObjectWithAcl
FirstRun == SubSeq(calls, 1, SecondCall - 1)
SecondRun == SubSeq(calls, SecondCall + 1, Len(calls))

WithoutAclCalls(run) ==
    SelectSeq(run, LAMBDA c : c.op \notin {"GetObjectAcl", "PutObjectAcl"})

AclFields ==
    {"ACL", "GrantRead", "GrantReadACP", "GrantWriteACP", "GrantFullControl"}

WithoutAclFields(req) == [f \in DOMAIN req \ AclFields |-> req[f]]

\* both calls are over and the callback did the same in both
BothModesSameCallback ==
    /\ Returned /\ other # NoOther
    /\ cbInfo = other.cbInfo
    /\ overwritingFilePath = other.overwritingFilePath
    /\ autoRemove = other.autoRemove
    /\ \A e \in {Call("Callback", NilStr), Call("Callback", CallbackFailure)} :
          (\E i \in DOMAIN FirstRun : FirstRun[i] = e)
              <=> (\E i \in DOMAIN SecondRun : SecondRun[i] = e)

\* C30: on the same stored object and with the same callback, the calls of
\* OverwriteS3Object without its GetObjectAcl and PutObjectAcl are the calls
\* of OverwriteS3ObjectWithAcl, which makes neither; both return the same
\* error or nil, and their PutObject requests agree on every field but ACL
\* and the grant fields: the first has no ACL, the second the canned ACL and
\* no grant field.
C30_ModesDifferInAclOnly ==
    BothModesSameCallback =>
        /\ WithoutAclCalls(FirstRun) = SecondRun
        /\ result = other.result
        /\ Len(putLog) \in {0, 2}
        /\ Len(putLog) = 2 =>
              /\ WithoutAclFields(putLog[1]) = WithoutAclFields(putLog[2])
              /\ putLog[1].ACL = "" /\ putLog[2].ACL = acl
              /\ \A f \in AclFields \ {"ACL"} : putLog[2][f] = NilStr

\* a tagged object with a WRITE grant: OverwriteS3Object made all five store
\* calls, OverwriteS3ObjectWithAcl the three that are not about the ACL
C30_Witness ==
    /\ BothModesSameCallback
    /\ Len(FirstRun) = 7 /\ Len(SecondRun) = 5
    /\ Len(putLog) = 2 /\ putLog[1].Tagging # NilChars
    /\ Len(aclLog) = 1

-----------------------------------------------------------------------------
(* C31 *)

\* the terminal states, read from the result and the call log
Skipped == Returned /\ result = NilError /\ CallbackSkipped

Done ==
    /\ Returned /\ result = NilError
    /\ calls # <<>> /\ LastCall.err = NilStr
    /\ LastCall.op \in {"PutObject", "PutObjectAcl"}

FailedState ==
    /\ Returned /\ result # NilError
    /\ calls # <<>>
    /\ \/ LastCall.err # NilStr
       \/ LastCall.op = "CreateTemp"    \* the copy or the seek failed
       \/ LastCall.op \in {"Callback", "GetObjectTagging", "GetObjectAcl"}
              /\ result.msg = "failed to open overwriting file"

\* the non-terminal state the invocation is in
Phase ==
    CASE pc \in {"GetObject", "Download"} -> "Fetching"
      [] pc = "Callback" -> "Deciding"
      [] pc \in {"GetObjectTagging", "GetObjectAcl"} -> "AttributeGathering"
      [] pc = "PutObject" -> "Writing"
      [] pc = "PutObjectAcl" -> "RestoringWriteGrant"
      [] OTHER -> "Terminal"

\* the next step can be one that fails
CanFail ==
    CASE pc = "GetObject" -> ENABLED GetObjectFails
      [] pc = "Download" -> ENABLED CreateTempFails /\ ENABLED CopyFails
      [] pc = "Callback" ->
             ENABLED CallbackWith({cb \in CallbackBehaviours : cb.ret = "error"})
      [] pc = "GetObjectTagging" -> ENABLED GetObjectTaggingFails
      [] pc = "GetObjectAcl" -> ENABLED GetObjectAclFails
      [] pc = "PutObject" -> ENABLED PutObjectFails \/ ENABLED OpenFails
      [] pc = "PutObjectAcl" -> ENABLED PutObjectAclFails
      [] OTHER -> FALSE

\* how far the invocation has come
PcRank ==
    CASE pc = "GetObject" -> 1
      [] pc = "Download" -> 2
      [] pc = "Callback" -> 3
      [] pc = "GetObjectTagging" -> 4
      [] pc = "GetObjectAcl" -> 5
      [] pc = "PutObject" -> 6
      [] pc = "PutObjectAcl" -> 7
      [] pc = "returned" -> 8

\* C31: every step takes the invocation further towards its return and in
\* every non-terminal state a step can be taken, so that an invocation whose
\* calls all return ends, after at most seven steps, in a terminal state; that
\* state is exactly one of Skipped, Done and Failed; in each of the five
\* non-terminal states the next step can be a failing one, and a failing step
\* ends in Failed; after the terminal state nothing more is done.
C31_OneTerminalState ==
    /\ [][PcRank' > PcRank]_vars
    /\ [](Returned =>
             /\ Skipped \/ Done \/ FailedState
             /\ ~(Skipped /\ Done) /\ ~(Skipped /\ FailedState)
             /\ ~(Done /\ FailedState))
    /\ [](~Returned => Phase # "Terminal" /\ CanFail)
    /\ [][LastCall'.err # NilStr => FailedState']_vars
    /\ [][Returned => UNCHANGED vars]_vars

\* the invocation failed in its last non-terminal state, after the write
C31_Witness ==
    /\ FailedState /\ LastCall.op = "PutObjectAcl"
    /\ Succeeded("PutObject")
    /\ result.msg = "failed to put object ACL"

-----------------------------------------------------------------------------
(* C32 *)

\* the Tagging an invocation sends for the object it was called on
TaggingFor(obj) ==
    IF obj.TagCount # NilCount /\ obj.TagCount > 0 /\ obj.TagSet # <<>>
    THEN buildTaggingString(obj.TagSet) ELSE NilChars

\* the PutObject request is made of the tags and grants of the object as it
\* was when this invocation was called
FromOwnFetches(req) ==
    /\ req.Tagging = TaggingFor(before)
    /\ mode = "OverwriteS3Object" =>
          \A f \in DOMAIN PutGrantFields :
              req[f] = SetIfNotEmpty(buildGrantString(before.Grants,
                                                      PutGrantFields[f]))

\* C32: in a sequence of invocations every invocation starts without tags and
\* grants, and every PutObject request carries the tags and grants the object
\* had when that invocation was called, also when they were changed after the
\* invocation before: nothing fetched by an earlier invocation is used.
C32_FetchedFreshPerInvocation ==
    /\ [](pc = "GetObject" =>
             tagging = NilChars /\ tagResp = <<>> /\ aclResp = <<>>)
    /\ [][Len(putLog') > Len(putLog) =>
             FromOwnFetches(putLog'[Len(putLog')])]_vars

\* the tags were removed and the grants replaced after the first invocation:
\* the second request has no Tagging and other grants than the first
C32_Witness ==
    /\ Returned /\ result = NilError
    /\ mode = "OverwriteS3Object"
    /\ Count("GetObject") = 2 /\ Count("Change") = 1 /\ Len(putLog) = 2
    /\ putLog[1].Tagging # NilChars /\ putLog[2].Tagging = NilChars
    /\ putLog[1].GrantRead = NilStr /\ putLog[2].GrantRead # NilStr
    /\ store.TagSet = <<>>

-----------------------------------------------------------------------------
(* C33 *)

\* C33: every PutObjectAcl request carries a WRITE grant string that is not
\* empty, and the restore is decided (hasWriteGrant) exactly when the
\* serialized WRITE string (buildGrantString) is not empty, for every list of
\* fetched grants, grantees without id, URI and e-mail address included.
C33_RestoreCarriesWrite ==
    /\ \A i \in DOMAIN aclLog :
          aclLog[i].GrantWrite # NilStr /\ aclLog[i].GrantWrite # ""
    /\ pc \in {"PutObject", "PutObjectAcl"} =>
          (hasWriteGrant(aclResp) <=> buildGrantString(aclResp, "WRITE") # "")

-----------------------------------------------------------------------------
(* C34 *)

\* the position of the first call op in the log, or 0
IndexOf(op) ==
    IF Issued(op) THEN CHOOSE i \in DOMAIN calls :
                           calls[i].op = op /\ \A j \in 1..(i - 1) : calls[j].op # op
    ELSE 0

\* the object as the store call op read it: as the other writer left it when
\* the write came first, else as GetObject read it
VersionReadBy(op) ==
    IF Issued("Write") /\ IndexOf("Write") < IndexOf(op) THEN store ELSE before

\* C34: the attributes and the metadata of a PutObject request are those
\* GetObject read at the start, its tags those GetObjectTagging read (asked for
\* when GetObject reported a tag count) and its grants those GetObjectAcl read,
\* each of the version of the object that call found; when another writer
\* changes the object in between, the invocation still returns nil.
C34_AttributesOfTwoVersions ==
    /\ [][Len(putLog') > Len(putLog) =>
             LET req == putLog'[Len(putLog')]
             IN  /\ \A a \in AttributeNames : req[a] = before.Attributes[a]
                 /\ req.Metadata = before.Metadata
                 /\ req.Tagging =
                       IF Issued("GetObjectTagging")
                       THEN TaggingOf(VersionReadBy("GetObjectTagging").TagSet,
                                      NilChars)
                       ELSE NilChars
                 /\ mode = "OverwriteS3Object" =>
                       \A f \in DOMAIN PutGrantFields :
                           req[f] = SetIfNotEmpty(buildGrantString(
                                        VersionReadBy("GetObjectAcl").Grants,
                                        PutGrantFields[f]))]_vars
    /\ [](Returned => result = NilError)

\* the object was replaced after GetObject and before the tag fetch: the
\* invocation returned nil and wrote the content type, the metadata and the
\* content of the first version with the tags (none) of the second
C34_Witness ==
    /\ Returned /\ result = NilError
    /\ Issued("Write") /\ IndexOf("Write") < IndexOf("GetObjectTagging")
    /\ before.TagSet # <<>>
    /\ Len(putLog) = 1
    /\ putLog[1].ContentType = before.Attributes.ContentType
    /\ putLog[1].ContentType # JsonContentType
    /\ putLog[1].Body = OldContent
    /\ putLog[1].Tagging = NilChars
    /\ store.Attributes.ContentType = before.Attributes.ContentType
    /\ store.TagSet = <<>>

-----------------------------------------------------------------------------
(* C35 *)

\* the file at the path the callback returned cannot be opened
CannotOpen == pc = "PutObject" /\ FileAt(fs, overwritingFilePath) = NoFile

\* C35: when the file at the path returned by the callback cannot be opened,
\* the tag fetch (if the object reported tags) and, in OverwriteS3Object, the
\* ACL fetch have been made, and the only step is the return of a non-nil
\* error: no PutObject and no PutObjectAcl request is issued, no further call
\* is made, and the stored object is as it was before the invocation.
C35_OpenFailureWritesNothing ==
    /\ [](CannotOpen =>
            /\ TagCountPositive => Succeeded("GetObjectTagging")
            /\ mode = "OverwriteS3Object" => Succeeded("GetObjectAcl")
            /\ store = before)
    /\ [][CannotOpen =>
            /\ Returned'
            /\ result' # NilError
            /\ result' = Errorf("failed to open overwriting file", NotExist)
            /\ calls' = calls
            /\ putLog' = <<>> /\ aclLog' = <<>>
            /\ ~Issued("PutObject")' /\ ~Issued("PutObjectAcl")'
            /\ store' = before]_vars

\* OverwriteS3Object on a tagged object: both fetches were made, the open
\* failed, and nothing was written
C35_Witness ==
    /\ Returned
    /\ result = Errorf("failed to open overwriting file", NotExist)
    /\ mode = "OverwriteS3Object"
    /\ Succeeded("GetObjectTagging") /\ Succeeded("GetObjectAcl")
    /\ LastCall.op = "GetObjectAcl"
    /\ putLog = <<>> /\ aclLog = <<>>
    /\ store = before /\ store.exists

-----------------------------------------------------------------------------
(* C36 *)

\* the callback returned without error, with autoRemove true, a path that is
\* not srcFilePath
RemovalDue == ReturnedOwnFile /\ autoRemove

\* the callback has just returned an error
CallbackFailed == LastCall.op = "Callback" /\ LastCall.err # NilStr

\* C36: once the callback has returned without error, with autoRemove true, a
\* path other than srcFilePath, the removal of the file at that path is pending
\* until the return, a failing step is possible at the tag fetch, the ACL fetch,
\* the open, PutObject and PutObjectAcl, and whichever step returns, with or
\* without error, leaves no file at that path nor at srcFilePath; when the
\* callback returns an error, the call returns with the temporary copy removed
\* and every other file, the one at the returned path included, as the
\* callback left it.
C36_RemovedOnEveryExit ==
    /\ [](RemovalDue /\ ~Returned =>
            /\ "removeOverwritingFile" \in Range(deferred)
            /\ overwritingFilePath = OutPath => fs[OutPath] = NewContent
            /\ CanFail)
    /\ [][RemovalDue /\ ~Returned /\ Returned' =>
            /\ overwritingFilePath' = overwritingFilePath
            /\ fs'[overwritingFilePath] = NoFile
            /\ fs'[TmpPath] = NoFile]_vars
    /\ [][pc = "Callback" /\ CallbackFailed' =>
            /\ Returned'
            /\ result' = Errorf("callback error", CallbackFailure)
            /\ fs[TmpPath] # NoFile /\ fs'[TmpPath] = NoFile
            /\ overwritingFilePath' = OutPath => fs'[OutPath] = NewContent
            /\ fs'[MissingPath] = fs[MissingPath]]_vars

\* the file the callback wrote is gone after PutObjectAcl failed
C36_Witness ==
    /\ Returned /\ RemovalDue
    /\ overwritingFilePath = OutPath
    /\ LastCall.op = "PutObjectAcl" /\ LastCall.err # NilStr
    /\ Succeeded("PutObject")
    /\ fs[OutPath] = NoFile /\ fs[TmpPath] = NoFile

\* the callback failed with autoRemove true and the path of a file it wrote:
\* that file is still there
C36_WitnessCallbackError ==
    /\ Returned /\ CallbackFailed
    /\ autoRemove /\ overwritingFilePath = OutPath
    /\ fs[OutPath] = NewContent /\ fs[TmpPath] = NoFile

====
